---- MODULE Spec2Model ----
(***************************************************************************)
(* A model of the sinksmtp rule engine: the expression tree and its        *)
(* evaluator, Rule.check, the phase-gated ruleset scan, the canonical text *)
(* of a rule, the address and host patterns, the attributes of an address  *)
(* and the validity of a mail domain.  Strings are TLA+ strings; a         *)
(* character is a string of length one.                                    *)
(***************************************************************************)
EXTENDS Integers, Sequences, FiniteSets, TLC

VARIABLES
    ruleset,    \* the connection's rules, in file order (Context.ruleset)
    files,      \* the pattern source: file argument -> list of patterns
    c,          \* the Context of the connection
    phase,      \* the phase of the last scan (pAny before the connection)
    decision,   \* what the last scan returned: action and with-properties
    trace,      \* the Rule.check calls of the last scan, in order
    rt,         \* a rule text on its way through the parser and Rule.String
    ev,         \* an expression, address or pattern and what evaluating,
                \* classifying or matching it gave
    dns         \* a resolver and the result of ValidDomain or checkIP on it

vars == <<ruleset, files, c, phase, decision, trace, rt, ev, dns>>

-----------------------------------------------------------------------------
(* Phase: the SMTP conversation phase.                                     *)
pAny == 0
pConnect == 1
pHelo == 2
pMfrom == 3
pRto == 4
pData == 5
pMessage == 6

pMap(p) ==
    CASE p = pAny -> "@any"
      [] p = pConnect -> "@connect"
      [] p = pHelo -> "@helo"
      [] p = pMfrom -> "@from"
      [] p = pRto -> "@to"
      [] p = pData -> "@data"
      [] p = pMessage -> "@message"

(* Action: from weakest (accept) to strongest (reject).                    *)
aError == 0
aNoresult == 1
aAccept == 2
aStall == 3
aReject == 4

aMap(a) ==
    CASE a = aError -> "ERROR"
      [] a = aNoresult -> "set-with"
      [] a = aAccept -> "accept"
      [] a = aStall -> "stall"
      [] a = aReject -> "reject"

-----------------------------------------------------------------------------
(* String helpers (Go's strings package).                                  *)
Ch(s, i) == SubSeq(s, i, i)

HasPrefix(s, p) == Len(s) >= Len(p) /\ SubSeq(s, 1, Len(p)) = p

HasSuffix(s, p) == Len(s) >= Len(p) /\ SubSeq(s, Len(s) - Len(p) + 1, Len(s)) = p

\* strings.IndexByte: the 0-based index of the first ch in s, or -1
IndexByte(s, ch) ==
    IF \E i \in 1..Len(s) : Ch(s, i) = ch
    THEN (CHOOSE i \in 1..Len(s) :
            Ch(s, i) = ch /\ \A j \in 1..(i - 1) : Ch(s, j) # ch) - 1
    ELSE -1

\* s[n:] with a 0-based n
From(s, n) == SubSeq(s, n + 1, Len(s))

UpperOf == [a |-> "A", b |-> "B", c |-> "C", d |-> "D", e |-> "E", f |-> "F",
            g |-> "G", h |-> "H", i |-> "I", j |-> "J", k |-> "K", l |-> "L",
            m |-> "M", n |-> "N", o |-> "O", p |-> "P", q |-> "Q", r |-> "R",
            s |-> "S", t |-> "T", u |-> "U", v |-> "V", w |-> "W", x |-> "X",
            y |-> "Y", z |-> "Z"]

\* the lower-case letter of each upper-case letter
LowerOf ==
    [u \in {UpperOf[k] : k \in DOMAIN UpperOf} |->
        CHOOSE k \in DOMAIN UpperOf : UpperOf[k] = u]

LowerCh(ch) == IF ch \in DOMAIN LowerOf THEN LowerOf[ch] ELSE ch

RECURSIVE ToLower(_)
ToLower(s) == IF s = "" THEN "" ELSE LowerCh(Head(s)) \o ToLower(Tail(s))

-----------------------------------------------------------------------------
(* Address and hostname patterns.                                          *)

\* an address with a local part and a domain around its first '@'
Qualified(a) == IndexByte(a, "@") > 0 /\ IndexByte(a, "@") < Len(a) - 1

\* the text after the first '@'
DomainOf(a) == From(a, IndexByte(a, "@") + 1)

matchHostL(h, p) ==
    \/ h = p
    \/ /\ Len(p) > 1
       /\ Head(p) = "."
       /\ (h = Tail(p) \/ HasSuffix(h, p))

\* a match that takes any text ending in the pattern less its dot
matchHost_anySuffix(host, pat) ==
    \/ ToLower(host) = ToLower(pat)
    \/ Len(pat) > 1 /\ Head(pat) = "." /\ HasSuffix(ToLower(host), Tail(ToLower(pat)))

matchHost(host, pat) == matchHostL(ToLower(host), ToLower(pat))

matchAddressL(a, p) ==
    CASE p = "<>" -> a = ""
      [] p = "@" -> Qualified(a)
      [] p # "<>" /\ p # "@" /\ IndexByte(p, "@") = 0 ->
            Qualified(a) /\ matchHostL(DomainOf(a), Tail(p))
      [] p # "<>" /\ p # "@" /\ IndexByte(p, "@") > 0
            /\ IndexByte(p, "@") = Len(p) - 1 ->
            \/ a \o "@" = p
            \/ Qualified(a) /\ SubSeq(a, 1, IndexByte(a, "@") + 1) = p
      [] OTHER -> IndexByte(p, "@") > 0 /\ a = p

\* a match that compares the texts as they are written
matchAddress_caseSensitive(addr, pat) == matchAddressL(addr, pat)

matchAddress(addr, pat) == matchAddressL(ToLower(addr), ToLower(pat))

\* an argument that names a file: '/a/file', './relative/file', 'file:<path>'
IsFileArg(arg) ==
    HasPrefix(arg, "/") \/ HasPrefix(arg, "./") \/ HasPrefix(arg, "file:")

\* Context.getMatchList: the patterns an argument stands for.  A file that
\* is missing, unreadable or empty gives the empty list.
getMatchList(fl, arg) ==
    IF IsFileArg(arg)
    THEN (IF arg \in DOMAIN fl THEN fl[arg] ELSE <<>>)
    ELSE <<arg>>

-----------------------------------------------------------------------------
(* Option: a bitmap of attributes, here the set of the bits that are set.  *)
oZero == {}
oHelo == {"oHelo"}
oEhlo == {"oEhlo"}
oNone == {"oNone"}
oBogus == {"oBogus"}
oNodots == {"oNodots"}
oBareip == {"oBareip"}
oProperip == {"oProperip"}
oMyip == {"oMyip"}
oRemip == {"oRemip"}
oOtherip == {"oOtherip"}
oNodns == {"oNodns"}
oInconsist == {"oInconsist"}
oNofwd == {"oNofwd"}
oGood == {"oGood"}
oExists == {"oExists"}
oUnqualified == {"oUnqualified"}
oRoute == {"oRoute"}
oQuoted == {"oQuoted"}
oNoat == {"oNoat"}
oGarbage == {"oGarbage"}
oDomainValid == {"oDomainValid"}
oDomainInvalid == {"oDomainInvalid"}
oDomainTempfail == {"oDomainTempfail"}
oHost == {"oHost"}
oFrom == {"oFrom"}
oBad == oUnqualified \cup oRoute \cup oNoat \cup oGarbage
oIp == oBareip \cup oProperip
oAny == oHost \cup oEhlo \cup oFrom

-----------------------------------------------------------------------------
(* Whether a domain is a valid mail domain.  A resolver is a record        *)
(*   [mx |-> name -> MX answer, ip |-> name -> address answer]             *)
(* an answer being an error kind and the records found; a name the         *)
(* resolver has no entry for does not exist.                               *)

\* dnsResult, in order from bad to good
dnsUndef == 0
dnsBad == 1
dnsTempfail == 2
dnsGood == 3

\* errors are records; no error is NilErr
NilErr == [kind |-> "nil"]

\* the text of the resolver error for anything but success or a name error
serverrstr == "server misbehaving"

\* the resolver's errors: a timeout is Temporary(), the others are not
DNSError(kind, name) ==
    [kind |-> kind, name |-> name, temporary |-> kind = "timeout",
     err |-> CASE kind = "timeout" -> "i/o timeout"
               [] kind = "servfail" -> serverrstr
               [] OTHER -> "no such host"]

\* a test that takes only a timeout for a temporary error
isTemporary_timeoutOnly(err) ==
    /\ err.kind \in {"timeout", "servfail", "nxdomain"}
    /\ err.temporary

\* err.(*net.DNSError) with e.Temporary() || e.Err == serverrstr
isTemporary(err) ==
    /\ err.kind \in {"timeout", "servfail", "nxdomain"}
    /\ (err.temporary \/ err.err = serverrstr)

NoSuchHost == [err |-> "nxdomain", recs |-> <<>>]

\* net.LookupMX and net.LookupIP: the records, and the error
LookupMX(res, name) == IF name \in DOMAIN res.mx THEN res.mx[name] ELSE NoSuchHost
LookupIP(res, name) == IF name \in DOMAIN res.ip THEN res.ip[name] ELSE NoSuchHost

ErrOf(ans, name) == IF ans.err = "nil" THEN NilErr ELSE DNSError(ans.err, name)

\* strings.Split(s, ".")
RECURSIVE SplitDot(_)
SplitDot(s) ==
    IF IndexByte(s, ".") < 0 THEN <<s>>
    ELSE <<SubSeq(s, 1, IndexByte(s, "."))>> \o SplitDot(From(s, IndexByte(s, ".") + 1))

Digits == "0123456789"

\* the number a string of decimal digits stands for, or -1
RECURSIVE AtoiFrom(_, _)
AtoiFrom(s, acc) ==
    IF s = "" THEN acc
    ELSE IF IndexByte(Digits, Head(s)) < 0 THEN -1
    ELSE AtoiFrom(Tail(s), acc * 10 + IndexByte(Digits, Head(s)))

Atoi(s) == IF s = "" THEN -1 ELSE AtoiFrom(s, 0)

\* the four octets of the parts p of a dotted quad, or <<>>
octetsOf(p) ==
    IF Len(p) = 4 /\ \A i \in 1..4 : Atoi(p[i]) \in 0..255
    THEN [i \in 1..4 |-> Atoi(p[i])]
    ELSE <<>>

\* the four octets of a dotted quad, or <<>> for any other text
Octets(ip) == octetsOf(SplitDot(ip))

\* strings.Split(s, ":")
RECURSIVE SplitColon(_)
SplitColon(s) ==
    IF IndexByte(s, ":") < 0 THEN <<s>>
    ELSE <<SubSeq(s, 1, IndexByte(s, ":"))>> \o SplitColon(From(s, IndexByte(s, ":") + 1))

HexDigits == "0123456789abcdef"

\* the number a string of hexadecimal digits stands for, or -1
RECURSIVE xtoiFrom(_, _)
xtoiFrom(s, acc) ==
    IF s = "" THEN acc
    ELSE IF IndexByte(HexDigits, Head(s)) < 0 THEN -1
    ELSE xtoiFrom(Tail(s), acc * 16 + IndexByte(HexDigits, Head(s)))

\* a group of one to four hexadecimal digits, or -1
xtoi(s) == IF s = "" \/ Len(s) > 4 THEN -1 ELSE xtoiFrom(s, 0)

\* the two groups the octets o of a dotted quad fill
quadGroups(o) ==
    IF Len(o) = 4 THEN <<o[1] * 256 + o[2], o[3] * 256 + o[4]>> ELSE <<-1>>

\* the groups of the colon-separated parts p of an IPv6 text; a dotted quad
\* may stand for the last two groups; -1 for a part that is no group
RECURSIVE groupsOf(_)
groupsOf(p) ==
    IF Len(p) = 0 THEN <<>>
    ELSE IF Len(p) = 1 /\ IndexByte(p[1], ".") >= 0 THEN quadGroups(Octets(p[1]))
    ELSE <<xtoi(p[1])>> \o groupsOf(Tail(p))

\* the groups of a text, none for the empty text
groupsIn(s) == IF s = "" THEN <<>> ELSE groupsOf(SplitColon(s))

\* the 1-based place of the first "::" in s, or 0
Ellipsis(s) ==
    IF \E k \in 1..(Len(s) - 1) : SubSeq(s, k, k + 1) = "::"
    THEN CHOOSE k \in 1..(Len(s) - 1) :
            SubSeq(s, k, k + 1) = "::" /\ \A j \in 1..(k - 1) : SubSeq(s, j, j + 1) # "::"
    ELSE 0

\* the eight groups of an address written as the groups a, "::" and the
\* groups b; the "::" stands for at least one group
expand(a, b) ==
    IF Len(a) + Len(b) <= 7 /\ \A i \in 1..Len(a \o b) : (a \o b)[i] \in 0..65535
    THEN a \o [i \in 1..(8 - Len(a) - Len(b)) |-> 0] \o b
    ELSE <<>>

\* the eight groups g of an address written in full
allGroups(g) ==
    IF Len(g) = 8 /\ \A i \in 1..8 : g[i] \in 0..65535 THEN g ELSE <<>>

\* the groups of the lower-case IPv6 text s with its first "::" at k
groupsAt(s, k) ==
    IF k = 0 THEN allGroups(groupsIn(s))
    ELSE expand(groupsIn(SubSeq(s, 1, k - 1)), groupsIn(From(s, k + 1)))

\* net.ParseIP of an IPv6 text: the eight 16-bit groups of the address, or
\* <<>> for any other text
To16(ip) ==
    IF IndexByte(ip, ":") < 0 THEN <<>> ELSE groupsAt(ToLower(ip), Ellipsis(ip))

\* the octets of the IPv4 address in the groups g of ::ffff:a.b.c.d, or <<>>
mapped(g) ==
    IF Len(g) = 8 /\ SubSeq(g, 1, 6) = <<0, 0, 0, 0, 0, 65535>>
    THEN <<g[7] \div 256, g[7] % 256, g[8] \div 256, g[8] % 256>>
    ELSE <<>>

\* net.IP.To4: the four octets of a dotted quad or of an IPv4-mapped IPv6
\* address, or <<>>
To4(ip) == IF IndexByte(ip, ":") < 0 THEN Octets(ip) ELSE mapped(To16(ip))

\* net.IP.IsGlobalUnicast of the address with the groups ip and the IPv4
\* octets o: not unspecified, loopback, multicast, link-local unicast or
\* the IPv4 broadcast address
IsGlobalUnicast(ip, o) ==
    IF Len(o) = 4
    THEN /\ o /= <<0, 0, 0, 0>>
         /\ o /= <<255, 255, 255, 255>>
         /\ o[1] /= 127
         /\ ~(o[1] \in 224..239)
         /\ ~(o[1] = 169 /\ o[2] = 254)
    ELSE /\ Len(ip) = 8
         /\ ip /= <<0, 0, 0, 0, 0, 0, 0, 0>>
         /\ ip /= <<0, 0, 0, 0, 0, 0, 0, 1>>
         /\ ip[1] \div 256 /= 255
         /\ ip[1] \div 64 /= 1018

\* 10.0.0.0/8, 172.16.0.0/12, 192.168.0.0/16, FC00::/7 and FEC0::/10
\* contain the address with the groups ip and the IPv4 octets o: the first
\* 8, 12, 16, 7 or 10 bits of the address are those of the block
net10(o) == Len(o) = 4 /\ o[1] = 10
net172(o) == Len(o) = 4 /\ o[1] = 172 /\ o[2] \in 16..31
net192(o) == Len(o) = 4 /\ o[1] = 192 /\ o[2] = 168
ipv6private(ip, o) == Len(o) = 0 /\ Len(ip) = 8 /\ ip[1] \div 512 = 126
ipv6siteloc(ip, o) == Len(o) = 0 /\ Len(ip) = 8 /\ ip[1] \div 64 = 1019

Res(v, err) == [v |-> v, err |-> err]

\* a loop body that knows no private address space
checkAddr_unicastOnly(domain, addr, ip, o, rest) ==
    IF ~IsGlobalUnicast(ip, o)
    THEN Res(dnsBad, [kind |-> "not global unicast", name |-> domain, ip |-> addr])
    ELSE rest

\* the body of the loop of checkIP for the address with the groups ip and
\* the IPv4 octets o; rest is the result for the addresses after it
checkAddr(domain, addr, ip, o, rest) ==
    IF ~IsGlobalUnicast(ip, o)
    THEN Res(dnsBad, [kind |-> "not global unicast", name |-> domain, ip |-> addr])
    ELSE IF net10(o) \/ net172(o) \/ net192(o) \/ ipv6private(ip, o) \/ ipv6siteloc(ip, o)
         THEN Res(dnsBad, [kind |-> "bad address space", name |-> domain, ip |-> addr])
    ELSE rest

\* the first address that disqualifies the name, from address i on
RECURSIVE checkAddrs(_, _, _)
checkAddrs(domain, addrs, i) ==
    IF i > Len(addrs) THEN Res(dnsGood, NilErr)
    ELSE checkAddr(domain, addrs[i], To16(addrs[i]), To4(addrs[i]),
                   checkAddrs(domain, addrs, i + 1))

\* checkIP on the answer ans of the address lookup
checkIPAnswer(domain, ans) ==
    IF ans.err /= "nil" /\ isTemporary(ErrOf(ans, domain))
    THEN Res(dnsTempfail, ErrOf(ans, domain))
    ELSE IF ans.err /= "nil" THEN Res(dnsBad, ErrOf(ans, domain))
    ELSE IF Len(ans.recs) = 0 THEN Res(dnsBad, [kind |-> "no IPs", name |-> domain])
    ELSE checkAddrs(domain, ans.recs, 1)

checkIP(res, domain) == checkIPAnswer(domain, LookupIP(res, domain))

\* the result of ValidDomain, with the names checkIP was called on
VRes(v, err, looked) == [v |-> v, err |-> err, looked |-> looked]

RECURSIVE mxLoop(_, _, _, _, _, _, _)

\* a comparison that lets a later target with an equal result replace the error
mxBetter_lastBest(res, domain, mxs, i, valid, verr, looked, r) ==
    IF r.v >= valid
    THEN mxLoop(res, domain, mxs, i + 1, r.v, r.err, looked)
    ELSE mxLoop(res, domain, mxs, i + 1, valid, verr, looked)

\* if v > valid { valid = v; verr = err }, then the next record
mxBetter(res, domain, mxs, i, valid, verr, looked, r) ==
    IF r.v > valid
    THEN mxLoop(res, domain, mxs, i + 1, r.v, r.err, looked)
    ELSE mxLoop(res, domain, mxs, i + 1, valid, verr, looked)

\* a loop that only knows the null MX of preference 0
mxLoop_pref0Only(res, domain, mxs, i, valid, verr, looked) ==
    IF i > Len(mxs) THEN VRes(valid, verr, looked)
    ELSE IF mxs[i].host = "." /\ mxs[i].pref = 0
         THEN VRes(dnsBad, [kind |-> "RFC 7505 null MX", name |-> domain], looked)
    ELSE mxBetter(res, domain, mxs, i, valid, verr,
                  Append(looked, mxs[i].host), checkIP(res, mxs[i].host))

\* the loop of ValidDomain over the MX records, from record i on
mxLoop(res, domain, mxs, i, valid, verr, looked) ==
    IF i > Len(mxs) THEN VRes(valid, verr, looked)
    ELSE IF mxs[i].host = "." /\ mxs[i].pref = 0
         THEN VRes(dnsBad, [kind |-> "RFC 7505 null MX", name |-> domain], looked)
    ELSE IF ToLower(mxs[i].host) = "." \/ ToLower(mxs[i].host) = "localhost."
         THEN VRes(dnsBad, [kind |-> "bogus MX", pref |-> mxs[i].pref,
                            host |-> mxs[i].host], looked)
    ELSE mxBetter(res, domain, mxs, i, valid, verr,
                  Append(looked, mxs[i].host), checkIP(res, mxs[i].host))

\* the fallback to the address records of the domain itself
viaIP(name, r) == VRes(r.v, r.err, <<name>>)

\* ValidDomain on the answer mx of the MX lookup
ValidDomainAnswer(res, domain, mx) ==
    IF mx.err /= "nil" /\ isTemporary(ErrOf(mx, domain \o "."))
    THEN VRes(dnsTempfail, [kind |-> "MX tempfail", err |-> ErrOf(mx, domain \o ".")], <<>>)
    ELSE IF mx.err /= "nil" THEN viaIP(domain \o ".", checkIP(res, domain \o "."))
    ELSE mxLoop(res, domain, mx.recs, 1, dnsUndef, NilErr, <<>>)

ValidDomain(res, domain) == ValidDomainAnswer(res, domain, LookupMX(res, domain \o "."))

-----------------------------------------------------------------------------
(* The attributes of an address, of a HELO name and of the reverse DNS.    *)

\* does s hold the text sub
Contains(s, sub) ==
    \E i \in 1..(Len(s) - Len(sub) + 1) : SubSeq(s, i, i + Len(sub) - 1) = sub

\* the first character of s, if it has one
First(s) == IF s = "" THEN "" ELSE Head(s)

\* '@target:rest' where rest holds a further '@'
IsRoute(a) ==
    /\ Head(a) = "@"
    /\ IndexByte(a, ":") > 1
    /\ IndexByte(From(a, IndexByte(a, ":") + 1), "@") >= 0

\* the address that a route leads to
AfterRoute(a) == IF IsRoute(a) THEN From(a, IndexByte(a, ":") + 1) ELSE a

\* the 0-based index of the quote that closes the one s opens with, from the
\* 0-based index i on, or -1
RECURSIVE ClosingQuote(_, _)
ClosingQuote(s, i) ==
    IF i >= Len(s) THEN -1
    ELSE IF Ch(s, i + 1) = "\\" THEN ClosingQuote(s, i + 2)
    ELSE IF Ch(s, i + 1) = "\"" THEN i
    ELSE ClosingQuote(s, i + 1)

\* the local part and the domain segment of an address without its route
AddrParts(r) ==
    IF First(r) = "\"" /\ ClosingQuote(r, 1) >= 0
    THEN [local |-> SubSeq(r, 1, ClosingQuote(r, 1) + 1),
          sep |-> Ch(r, ClosingQuote(r, 1) + 2),
          domain |-> From(r, ClosingQuote(r, 1) + 2)]
    ELSE [local |-> SubSeq(r, 1, IndexByte(r, "@")),
          sep |-> "@",
          domain |-> From(r, IndexByte(r, "@") + 1)]

\* the domain segment: the text after the '@' that ends the local part
AddrDomain(a) == AddrParts(AfterRoute(a)).domain

IsGarbage(a, p) ==
    \/ p.local = ""
    \/ p.domain = ""
    \/ p.sep /= "@"
    \/ Contains(a, "<") \/ Contains(a, ">")
    \/ Contains(p.domain, "\"") \/ Contains(p.domain, "@")
    \/ Contains(p.local, "..")
    \/ (First(p.local) = "\"" /\ ClosingQuote(p.local, 1) /= Len(p.local) - 1)
    \/ (First(p.local) /= "\"" /\ Contains(p.local, "\""))

\* the attributes that the text of an address shows
addrShape(a, p) ==
    (IF IsRoute(a) THEN oRoute ELSE oZero)
        \cup (IF First(p.local) = "\"" THEN oQuoted ELSE oZero)
        \cup (IF IsGarbage(a, p) THEN oGarbage ELSE oZero)
        \cup (IF ~Contains(p.domain, ".") THEN oUnqualified ELSE oZero)

\* the attribute that a result of ValidDomain stands for
domainOpt(v) ==
    CASE v = dnsGood -> oDomainValid
      [] v = dnsBad -> oDomainInvalid
      [] v = dnsTempfail -> oDomainTempfail
      [] OTHER -> oZero

\* a plain address also gets the validity of its domain
withDomain(cx, a, shape) ==
    IF shape \cap (oRoute \cup oUnqualified \cup oGarbage \cup oNoat) = {}
    THEN shape \cup domainOpt(ValidDomain(cx.res, AddrDomain(a)).v)
    ELSE shape

getAddrOpts(a, cx) ==
    IF a = "" THEN oZero
    ELSE IF IndexByte(a, "@") < 0 THEN oNoat
    ELSE withDomain(cx, a, addrShape(a, AddrParts(AfterRoute(a))))

getFromOpts(cx) == getAddrOpts(cx.from, cx)
getToOpts(cx) == getAddrOpts(cx.rcptto, cx)

\* the reverse-DNS attributes, from the lengths of the three name lists
dnsGetter(cx) ==
    (IF Len(cx.verified) > 0 THEN oExists ELSE oNodns)
        \cup (IF Len(cx.nofwd) > 0 THEN oNofwd ELSE oZero)
        \cup (IF Len(cx.inconsist) > 0 THEN oInconsist ELSE oZero)
        \cup (IF Len(cx.verified) > 0 /\ Len(cx.nofwd) = 0 /\ Len(cx.inconsist) = 0
              THEN oGood ELSE oZero)

\* the text between the brackets of '[...]', or the text itself
Unbracket(h) ==
    IF Len(h) >= 2 /\ Head(h) = "[" /\ Ch(h, Len(h)) = "]"
    THEN SubSeq(h, 2, Len(h) - 1) ELSE h

\* an IPv4 or IPv6 literal
IsIPText(h) == Len(Octets(h)) = 4 \/ Contains(h, ":")

ipOwner(cx, ip) ==
    IF ip = cx.lip THEN oMyip ELSE IF ip = cx.rip THEN oRemip ELSE oOtherip

\* the attributes of the HELO name; the caller's verb bit is oEhlo here
heloGetter(cx) ==
    oEhlo \cup
    (IF cx.heloname = "" THEN oNone \cup oNodots
     ELSE IF cx.heloname = "." THEN oBogus \cup oNodots
     ELSE IF IsIPText(cx.heloname) THEN oBareip \cup ipOwner(cx, cx.heloname)
     ELSE IF Unbracket(cx.heloname) /= cx.heloname /\ IsIPText(Unbracket(cx.heloname))
          THEN oProperip \cup ipOwner(cx, Unbracket(cx.heloname))
     ELSE IF ~Contains(cx.heloname, ".") THEN oNodots
     ELSE oZero)

-----------------------------------------------------------------------------
(* Expression nodes.  A node is a record with a tag t:                     *)
(*   all | tls(on) | match(what, arg) | not(node) | or(left, right) |      *)
(*   and(nodes)                                                            *)
AllN == [t |-> "all"]
TlsN(on) == [t |-> "tls", on |-> on]
MatchN(what, arg) == [t |-> "match", what |-> what, arg |-> arg]
NotN(e) == [t |-> "not", node |-> e]
OrN(l, r) == [t |-> "or", left |-> l, right |-> r]
AndL(ns) == [t |-> "and", nodes |-> ns]

newHeloNode(arg) == MatchN("helo", arg)
newHostNode(arg) == MatchN("host", arg)
newFromNode(arg) == MatchN("from", arg)
newToNode(arg) == MatchN("to", arg)

\* the terminal nodes that carry options or blocklist domains
DNSblN(domain) == [t |-> "dnsbl", domain |-> domain]
matchSource(arg) == [t |-> "source", arg |-> arg]
DblNode(src, domain) == [t |-> "dbl", src |-> src, domain |-> domain]
OptionN(what, opts) == [t |-> "opt", what |-> what, opts |-> opts]

newIPNode(arg) == MatchN("ip", arg)
newSourceNode(arg) == matchSource(arg)
newDblNode(typ, arg) == DblNode(typ, arg)
newDnsOpt(o) == OptionN("dns", o)
newHeloOpt(o) == OptionN("helo-has", o)
newFromHasOpt(o) == OptionN("from-has", o)
newToHasOpt(o) == OptionN("to-has", o)

\* MatchN.getter: the literals a matcher looks at
getter(what, cx) ==
    CASE what = "helo" -> <<cx.heloname>>
      [] what = "host" -> cx.verified
      [] what = "from" -> <<cx.from>>
      [] what = "to" -> <<cx.rcptto>>
      [] what = "ip" -> <<cx.rip>>
      [] what = "source_from" -> <<cx.from>>

\* an address pattern taken as the pattern less its '@'
matchFromHost_bare(addr, host) == matchAddress(addr, host)

\* match the domain of an address against a host pattern
matchFromHost(addr, host) == matchAddress(addr, "@" \o host)

\* 2 to the power n
RECURSIVE Pow2(_)
Pow2(n) == IF n = 0 THEN 1 ELSE 2 * Pow2(n - 1)

\* are the first n bits of the dotted quads a and b the same
SamePrefix(a, b, n) ==
    /\ \A i \in 1..(n \div 8) : a[i] = b[i]
    /\ (n % 8 /= 0 =>
           a[(n \div 8) + 1] \div Pow2(8 - (n % 8)) = b[(n \div 8) + 1] \div Pow2(8 - (n % 8)))

\* the address with the octets a is in the netblock of n bits around b
inNet(a, b, n) ==
    Len(a) = 4 /\ Len(b) = 4 /\ n \in 0..32 /\ SamePrefix(a, b, n)

\* the netblock pattern pat has its '/' at index k
matchNet(ip, pat, k) ==
    inNet(Octets(ip), Octets(SubSeq(pat, 1, k)), Atoi(From(pat, k + 1)))

\* matchIp: the pattern is an IP address or a CIDR netblock
matchIp(ip, pat) ==
    IF IndexByte(pat, "/") < 0 THEN ip = pat ELSE matchNet(ip, pat, IndexByte(pat, "/"))

\* MatchN.matcher
matcher(what, e, p) ==
    CASE what \in {"helo", "host"} -> matchHost(e, p)
      [] what = "ip" -> matchIp(e, p)
      [] what = "source_from" -> matchFromHost(e, p)
      [] OTHER -> matchAddress(e, p)

\* the result of an evaluation: the boolean, the Context it leaves and the
\* terminal nodes evaluated so far
Ev(r, cx, log) == [r |-> r, c |-> cx, log |-> log]

\* a matcher that takes a getter without values for missing data
MatchNEval_missOnNoValue(m, cx, fl, log) ==
    IF Len(getMatchList(fl, m.arg)) = 0 \/ Len(getter(m.what, cx)) = 0
    THEN Ev(FALSE, [cx EXCEPT !.rulemiss = TRUE], Append(log, m))
    ELSE Ev(\E i \in 1..Len(getMatchList(fl, m.arg)) :
               \E j \in 1..Len(getter(m.what, cx)) :
                  matcher(m.what, getter(m.what, cx)[j], getMatchList(fl, m.arg)[i]),
            cx, Append(log, m))

MatchNEval(m, cx, fl, log) ==
    LET plist == getMatchList(fl, m.arg)
        lg == Append(log, m)
    IN  IF Len(plist) = 0
        THEN Ev(FALSE, [cx EXCEPT !.rulemiss = TRUE], lg)
        ELSE Ev(\E i \in 1..Len(plist) :
                   \E j \in 1..Len(getter(m.what, cx)) :
                      matcher(m.what, getter(m.what, cx)[j], plist[i]),
                cx, lg)

\* Context.getDnsblRes: ask the blocklist whether it lists the name ln
getDnsblRes(cx, ln) ==
    [r |-> ln \in cx.listed, c |-> [cx EXCEPT !.probed = Append(@, ln)]]

\* Context.addDnsblHit: note the blocklist that had a hit
addDnsblHit(cx, domain) == [cx EXCEPT !.dnsblhit = Append(@, domain)]

\* the result of a probe p made for the blocklist domain
probeResult(p, domain, log) ==
    IF p.r THEN Ev(TRUE, addDnsblHit(p.c, domain), log) ELSE Ev(FALSE, p.c, log)

\* a lookup that takes the octets in the order they are written
dnsblProbe_forward(d, cx, log, q) ==
    IF Len(q) /= 4 THEN Ev(FALSE, cx, log)
    ELSE probeResult(
             getDnsblRes(cx, q[1] \o "." \o q[2] \o "." \o q[3] \o "." \o q[4]
                                \o "." \o d.domain),
             d.domain, log)

\* DNSblN.Eval after the split of the remote IP into the parts q
dnsblProbe(d, cx, log, q) ==
    IF Len(q) /= 4 THEN Ev(FALSE, cx, log)
    ELSE probeResult(
             getDnsblRes(cx, q[4] \o "." \o q[3] \o "." \o q[2] \o "." \o q[1]
                                \o "." \o d.domain),
             d.domain, log)

\* a lookup that takes a missing remote IP for missing data
DNSblNEval_missOnNoIP(d, cx, log) ==
    IF cx.rip = "" THEN Ev(FALSE, [cx EXCEPT !.rulemiss = TRUE], Append(log, d))
    ELSE dnsblProbe(d, cx, Append(log, d), SplitDot(cx.rip))

\* DNSblN.Eval
DNSblNEval(d, cx, log) ==
    IF cx.rip = "" THEN Ev(FALSE, cx, Append(log, d))
    ELSE dnsblProbe(d, cx, Append(log, d), SplitDot(cx.rip))

\* the ehlo and the from leg of a source: not evaluated after a true leg
sourceLeg(x, node, fl) == IF x.r THEN x ELSE MatchNEval(node, x.c, fl, x.log)

matchSourceEval(m, cx, fl, log) ==
    sourceLeg(sourceLeg(MatchNEval(newHostNode(m.arg), cx, fl, log),
                        newHeloNode(m.arg), fl),
              MatchN("source_from", m.arg), fl)

\* s[:len(s)-1]
DropLast(s) == SubSeq(s, 1, Len(s) - 1)

\* the set of names that DblNode.Eval collects to check
dblCheck(d, cx) ==
    (IF d.src \cap (oEhlo \cup oHelo) /= {} /\ cx.heloname /= ""
     THEN {cx.heloname} ELSE {})
    \cup (IF oHost \subseteq d.src
          THEN {DropLast(cx.verified[i]) : i \in 1..Len(cx.verified)}
                 \cup {DropLast(cx.nofwd[i]) : i \in 1..Len(cx.nofwd)}
                 \cup {DropLast(cx.inconsist[i]) : i \in 1..Len(cx.inconsist)}
          ELSE {})
    \cup (IF /\ oFrom \subseteq d.src
             /\ cx.from /= ""
             /\ getAddrOpts(cx.from, cx)
                  \cap (oDomainValid \cup oDomainInvalid \cup oDomainTempfail) /= {}
          THEN {From(cx.from, IndexByte(cx.from, "@") + 1)} ELSE {})

\* the order in which the map with the keys S is traversed: the one the
\* Context gives for the names it ranks, then the others
RECURSIVE AnyOrder(_)
AnyOrder(S) ==
    IF S = {} THEN <<>> ELSE <<CHOOSE x \in S : TRUE>> \o AnyOrder(S \ {CHOOSE x \in S : TRUE})

Ranked(cx, S) == SelectSeq(cx.order, LAMBDA x : x \in S)

VisitOrder(cx, S) ==
    Ranked(cx, S) \o AnyOrder(S \ {cx.order[i] : i \in 1..Len(cx.order)})

RECURSIVE dblLoop(_, _, _, _, _, _)

\* res := c.getDnsblRes(ln); if res { c.addDnsblHit(d.domain); ret = true }
dblStep(d, names, i, ret, log, p) ==
    dblLoop(d, names, i + 1, probeResult(p, d.domain, log).c, ret \/ p.r, log)

\* a loop that stops at the first name that is listed
dblLoop_stopsAtHit(d, names, i, cx, ret, log) ==
    IF i > Len(names) \/ ret THEN Ev(ret, cx, log)
    ELSE dblStep(d, names, i, ret, log, getDnsblRes(cx, names[i] \o "." \o d.domain))

\* for s := range check: probe s.domain, note a hit, go on
dblLoop(d, names, i, cx, ret, log) ==
    IF i > Len(names) THEN Ev(ret, cx, log)
    ELSE dblStep(d, names, i, ret, log, getDnsblRes(cx, names[i] \o "." \o d.domain))

DblNodeEval(d, cx, log) ==
    IF dblCheck(d, cx) = {} THEN Ev(FALSE, cx, Append(log, d))
    ELSE dblLoop(d, VisitOrder(cx, dblCheck(d, cx)), 1, cx, FALSE, Append(log, d))

\* OptionN.getter
optGetter(what, cx) ==
    CASE what = "dns" -> dnsGetter(cx)
      [] what = "helo-has" -> heloGetter(cx)
      [] what = "from-has" -> getFromOpts(cx)
      [] what = "to-has" -> getToOpts(cx)

\* an attribute test that wants every listed attribute
OptionNEval_all(t, cx, log) ==
    Ev(t.opts \subseteq optGetter(t.what, cx), cx, Append(log, t))

\* t.opts&opt > 0
OptionNEval(t, cx, log) ==
    Ev(t.opts \cap optGetter(t.what, cx) /= {}, cx, Append(log, t))

RECURSIVE Eval(_, _, _, _)
RECURSIVE AndLEval(_, _, _, _, _)
RECURSIVE AndLEval_any(_, _, _, _, _)

\* a sequence that is true as soon as one operand is
AndLEval_any(nodes, i, cx, fl, log) ==
    IF i > Len(nodes)
    THEN Ev(FALSE, cx, log)
    ELSE LET x == Eval(nodes[i], cx, fl, log)
         IN  IF x.r THEN x ELSE AndLEval_any(nodes, i + 1, x.c, fl, x.log)

\* AndL.Eval from node i on: stop at the first false operand
AndLEval(nodes, i, cx, fl, log) ==
    IF i > Len(nodes)
    THEN Ev(TRUE, cx, log)
    ELSE LET x == Eval(nodes[i], cx, fl, log)
         IN  IF ~x.r THEN x ELSE AndLEval(nodes, i + 1, x.c, fl, x.log)

\* a negation that also clears the signal
NotNEval_clears(n, cx, fl, log) ==
    LET x == Eval(n.node, cx, fl, log)
    IN  Ev(~x.r, [x.c EXCEPT !.rulemiss = FALSE], x.log)

NotNEval(n, cx, fl, log) ==
    LET x == Eval(n.node, cx, fl, log)
    IN  Ev(~x.r, x.c, x.log)

\* an or that evaluates both operands
OrNEval_both(o, cx, fl, log) ==
    LET x == Eval(o.left, cx, fl, log)
        y == Eval(o.right, x.c, fl, x.log)
    IN  Ev(x.r \/ y.r, y.c, y.log)

OrNEval(o, cx, fl, log) ==
    LET x == Eval(o.left, cx, fl, log)
    IN  IF x.r THEN x ELSE Eval(o.right, x.c, fl, x.log)

Eval(e, cx, fl, log) ==
    CASE e.t = "all" -> Ev(TRUE, cx, Append(log, e))
      [] e.t = "tls" -> Ev(e.on = cx.tlson, cx, Append(log, e))
      [] e.t = "match" -> MatchNEval(e, cx, fl, log)
      [] e.t = "dnsbl" -> DNSblNEval(e, cx, log)
      [] e.t = "source" -> matchSourceEval(e, cx, fl, log)
      [] e.t = "dbl" -> DblNodeEval(e, cx, log)
      [] e.t = "opt" -> OptionNEval(e, cx, log)
      [] e.t = "not" -> NotNEval(e, cx, fl, log)
      [] e.t = "or" -> OrNEval(e, cx, fl, log)
      [] e.t = "and" -> AndLEval(e.nodes, 1, cx, fl, log)

-----------------------------------------------------------------------------
(* The canonical text of options, nodes, clauses and rules.                *)

\* byte order of the characters that names are made of
NameChars == "-abcdefghijklmnopqrstuvwxyz"

RECURSIVE StrLess(_, _)
StrLess(a, b) ==
    IF b = "" THEN FALSE
    ELSE IF a = "" THEN TRUE
    ELSE IF Head(a) = Head(b) THEN StrLess(Tail(a), Tail(b))
    ELSE IndexByte(NameChars, Head(a)) < IndexByte(NameChars, Head(b))

\* sort.Strings
RECURSIVE SortStrings(_)
SortStrings(l) ==
    IF Len(l) <= 1 THEN l
    ELSE LET m == CHOOSE i \in 1..Len(l) :
                     \A j \in 1..Len(l) : l[i] = l[j] \/ StrLess(l[i], l[j])
             rest == [j \in 1..(Len(l) - 1) |-> IF j < m THEN l[j] ELSE l[j + 1]]
         IN  <<l[m]>> \o SortStrings(rest)

\* strings.Join
RECURSIVE Join(_, _)
Join(l, sep) ==
    IF Len(l) = 0 THEN ""
    ELSE IF Len(l) = 1 THEN l[1]
    ELSE l[1] \o sep \o Join(Tail(l), sep)

\* the orders in which a map with the keys S may be traversed
Orders(S) ==
    {f \in [1..Cardinality(S) -> S] :
        \A i, j \in 1..Cardinality(S) : f[i] = f[j] => i = j}

\* mapMap: for each operator that takes attributes, its attribute words
mapMap ==
    [dns |-> {<<"nodns", oNodns>>, <<"inconsistent", oInconsist>>,
              <<"noforward", oNofwd>>, <<"good", oGood>>, <<"exists", oExists>>},
     helo |-> {<<"helo", oHelo>>, <<"ehlo", oEhlo>>, <<"none", oNone>>,
               <<"bogus", oBogus>>, <<"nodots", oNodots>>,
               <<"bareip", oBareip>>, <<"properip", oProperip>>,
               <<"myip", oMyip>>, <<"remoteip", oRemip>>,
               <<"otherip", oOtherip>>, <<"ip", oIp>>},
     addr |-> {<<"unqualified", oUnqualified>>, <<"route", oRoute>>,
               <<"quoted", oQuoted>>, <<"noat", oNoat>>,
               <<"garbage", oGarbage>>, <<"resolves", oDomainValid>>,
               <<"baddom", oDomainInvalid>>, <<"unknown", oDomainTempfail>>,
               <<"bad", oBad>>},
     dbl |-> {<<"helo", oEhlo>>, <<"ehlo", oEhlo>>, <<"host", oHost>>,
              <<"from", oFrom>>, <<"any", oAny>>}]

\* the inverse of mapMap as <<option, word>> pairs; the two entries set last
\* replace whatever word the traversal left for oHelo and oEhlo
optsReverse ==
    LET rev == {<<kv[2], kv[1]>> : kv \in UNION {mapMap[m] : m \in DOMAIN mapMap}}
    IN  {x \in rev : x[1] \notin {oHelo, oEhlo}}
            \cup {<<oHelo, "helo">>, <<oEhlo, "ehlo">>}

revMap == optsReverse

\* Option.String for each order in which revMap may be traversed: the set of
\* the texts it can return
OptionStrings(opts) ==
    LET hasBad == oBad \subseteq opts
        o1 == IF hasBad THEN opts \ oBad ELSE opts
        hasIp == oIp \subseteq o1
        o2 == IF hasIp THEN o1 \ oIp ELSE o1
        hasAny == oAny \subseteq o2
        o3 == IF hasAny THEN o2 \ oAny ELSE o2
        groups == (IF hasBad THEN <<"bad">> ELSE <<>>)
                    \o (IF hasIp THEN <<"ip">> ELSE <<>>)
                    \o (IF hasAny THEN <<"any">> ELSE <<>>)
        names == {kv[2] : kv \in {x \in revMap : x[1] \subseteq o3}}
    IN  {Join(SortStrings(groups \o l), ",") : l \in Orders(names)}

\* Every String operator below yields the set of the texts the method can
\* return, one for each traversal order of the maps it ranges over.
RECURSIVE ExprString(_), NodesString(_)

AllNString(e) == {"all"}

TlsNString(e) == {IF e.on THEN "tls on" ELSE "tls off"}

DNSblNString(e) == {"dnsbl " \o e.domain}

MatchNString(e) == {e.what \o " " \o e.arg}

matchSourceString(e) == {"source " \o e.arg}

DblNodeString(e) == {"dbl " \o o \o " " \o e.domain : o \in OptionStrings(e.src)}

OptionNString(e) == {e.what \o " " \o o : o \in OptionStrings(e.opts)}

NotNString(e) == {"not " \o x : x \in ExprString(e.node)}

OrNString(e) ==
    {"( " \o l \o " or " \o r \o " )" :
        l \in ExprString(e.left), r \in ExprString(e.right)}

\* strings.Join(l, " ") over the texts of the nodes
NodesString(ns) ==
    IF Len(ns) = 0 THEN {""}
    ELSE IF Len(ns) = 1 THEN ExprString(ns[1])
    ELSE {a \o " " \o b : a \in ExprString(ns[1]), b \in NodesString(Tail(ns))}

AndLString(e) == {"( " \o x \o " )" : x \in NodesString(e.nodes)}

ExprString(e) ==
    CASE e.t = "all" -> AllNString(e)
      [] e.t = "tls" -> TlsNString(e)
      [] e.t = "dnsbl" -> DNSblNString(e)
      [] e.t = "match" -> MatchNString(e)
      [] e.t = "source" -> matchSourceString(e)
      [] e.t = "dbl" -> DblNodeString(e)
      [] e.t = "opt" -> OptionNString(e)
      [] e.t = "not" -> NotNString(e)
      [] e.t = "or" -> OrNString(e)
      [] e.t = "and" -> AndLString(e)

\* the " k "v"" and " k" pieces of a with-clause, for the keys in this order
RECURSIVE WithText(_, _)
WithText(withs, keys) ==
    IF Len(keys) = 0 THEN ""
    ELSE (IF withs[keys[1]] /= ""
            THEN " " \o keys[1] \o " \"" \o withs[keys[1]] \o "\""
            ELSE " " \o keys[1])
         \o WithText(withs, Tail(keys))

\* the same pieces in the order the keys were collected, without the sort
RClauseString_unsorted(rc) ==
    {x \o (IF w /= "" THEN " with" \o w ELSE "") :
        x \in ExprString(rc.expr),
        w \in {WithText(rc.withs, ks) : ks \in Orders(DOMAIN rc.withs)}}

RClauseString(rc) ==
    {x \o (IF w /= "" THEN " with" \o w ELSE "") :
        x \in ExprString(rc.expr),
        w \in {WithText(rc.withs, SortStrings(ks)) : ks \in Orders(DOMAIN rc.withs)}}

\* strings.Join(cstrs, "; ") over the texts of the clauses
RECURSIVE ClausesString(_)
ClausesString(cls) ==
    IF Len(cls) = 0 THEN {""}
    ELSE IF Len(cls) = 1 THEN RClauseString(cls[1])
    ELSE {a \o "; " \o b : a \in RClauseString(cls[1]), b \in ClausesString(Tail(cls))}

RuleString(r) ==
    IF r.deferto /= pAny
    THEN {pMap(r.deferto) \o " " \o aMap(r.result) \o " " \o x : x \in ClausesString(r.clauses)}
    ELSE {aMap(r.result) \o " " \o x : x \in ClausesString(r.clauses)}

-----------------------------------------------------------------------------
(* Rules.  A with-map is a function from option names to values.           *)
NoWiths == <<>>

RClause(e, w) == [expr |-> e, withs |-> w]

Rule(res, req, defer, cls) ==
    [clauses |-> cls, result |-> res, requires |-> req, deferto |-> defer]

\* a merge that replaces the accumulated properties by the clause's
MergeWiths_replace(props, withs) == withs

\* c.withprops[k] = v for every k, v of the clause
MergeWiths(props, withs) ==
    [k \in DOMAIN props \cup DOMAIN withs |->
        IF k \in DOMAIN withs THEN withs[k] ELSE props[k]]

\* what one call of Rule.check did: its result, the Context it leaves, the
\* terminal nodes it evaluated and the number of clauses it evaluated
Checked(res, cx, log, ncl) == [res |-> res, c |-> cx, log |-> log, ncl |-> ncl]

\* a clause loop that does not look at the signal after a clause
RECURSIVE checkFrom_ignoresMiss(_, _, _, _, _)
checkFrom_ignoresMiss(r, i, cx, fl, log) ==
    IF i > Len(r.clauses)
    THEN Checked(FALSE, cx, log, i - 1)
    ELSE LET x == Eval(r.clauses[i].expr, cx, fl, log)
         IN  IF ~x.r
             THEN checkFrom_ignoresMiss(r, i + 1, x.c, fl, x.log)
             ELSE Checked(x.r,
                          [x.c EXCEPT !.withprops =
                              MergeWiths(@, r.clauses[i].withs)],
                          x.log, i)

\* a clause loop that goes on to the later clauses after a match
RECURSIVE checkFrom_noStop(_, _, _, _, _)
checkFrom_noStop(r, i, cx, fl, log) ==
    IF i > Len(r.clauses)
    THEN Checked(FALSE, cx, log, i - 1)
    ELSE LET x == Eval(r.clauses[i].expr, cx, fl, log)
         IN  IF x.c.rulemiss
             THEN Checked(FALSE, x.c, x.log, i)
             ELSE IF ~x.r
             THEN checkFrom_noStop(r, i + 1, x.c, fl, x.log)
             ELSE LET rest == checkFrom_noStop(r, i + 1,
                                  [x.c EXCEPT !.withprops =
                                      MergeWiths(@, r.clauses[i].withs)],
                                  fl, x.log)
                  IN  Checked(TRUE, rest.c, rest.log, rest.ncl)

\* a clause loop that gives up at the first clause that is false
RECURSIVE checkFrom_stopsAtFalse(_, _, _, _, _)
checkFrom_stopsAtFalse(r, i, cx, fl, log) ==
    IF i > Len(r.clauses)
    THEN Checked(FALSE, cx, log, i - 1)
    ELSE LET x == Eval(r.clauses[i].expr, cx, fl, log)
         IN  IF x.c.rulemiss \/ ~x.r
             THEN Checked(FALSE, x.c, x.log, i)
             ELSE Checked(x.r,
                          [x.c EXCEPT !.withprops =
                              MergeWiths(@, r.clauses[i].withs)],
                          x.log, i)

\* the clause loop of Rule.check, from clause i on
RECURSIVE checkFrom(_, _, _, _, _)

\* a loop body that merges the with-options of every clause it gets past
checkClause_mergesAlways(r, i, fl, x) ==
    IF x.c.rulemiss
    THEN Checked(FALSE, x.c, x.log, i)
    ELSE IF ~x.r
    THEN checkFrom(r, i + 1,
                   [x.c EXCEPT !.withprops = MergeWiths(@, r.clauses[i].withs)],
                   fl, x.log)
    ELSE Checked(x.r,
                 [x.c EXCEPT !.withprops = MergeWiths(@, r.clauses[i].withs)],
                 x.log, i)

\* the body of the loop of Rule.check for clause i, evaluated to x
checkClause(r, i, fl, x) ==
    IF x.c.rulemiss
    THEN Checked(FALSE, x.c, x.log, i)
    ELSE IF ~x.r
    THEN checkFrom(r, i + 1, x.c, fl, x.log)
    ELSE Checked(x.r,
                 [x.c EXCEPT !.withprops = MergeWiths(@, r.clauses[i].withs)],
                 x.log, i)

checkFrom(r, i, cx, fl, log) ==
    IF i > Len(r.clauses)
    THEN Checked(FALSE, cx, log, i - 1)
    ELSE checkClause(r, i, fl, Eval(r.clauses[i].expr, cx, fl, log))

\* a check that does not clear the signal on entry
check_noReset(r, cx, fl) == checkFrom(r, 1, cx, fl, <<>>)

\* Rule.check
check(r, cx, fl) == checkFrom(r, 1, [cx EXCEPT !.rulemiss = FALSE], fl, <<>>)

-----------------------------------------------------------------------------
(* The phase a matcher needs its data from, and the ruleset scan.          *)

\* the earliest phase at which the data a terminal node reads exists
needs(e) ==
    CASE e.t = "all" -> pConnect
      [] e.t = "tls" -> pMfrom
      [] e.t = "match" /\ e.what = "host" -> pConnect
      [] e.t = "match" /\ e.what = "helo" -> pHelo
      [] e.t = "match" /\ e.what = "from" -> pMfrom
      [] e.t = "match" /\ e.what = "to" -> pRto
      [] e.t = "match" /\ e.what = "ip" -> pConnect
      [] e.t = "source" -> pMfrom
      [] e.t = "dnsbl" -> pConnect
      [] e.t = "dbl" -> IF oFrom \subseteq e.src THEN pMfrom
                        ELSE IF oEhlo \subseteq e.src THEN pHelo
                        ELSE pConnect
      [] e.t = "opt" /\ e.what = "dns" -> pConnect
      [] e.t = "opt" /\ e.what = "helo-has" -> pHelo
      [] e.t = "opt" /\ e.what = "from-has" -> pMfrom
      [] e.t = "opt" /\ e.what = "to-has" -> pRto

Max(a, b) == IF a >= b THEN a ELSE b

RECURSIVE requiresOf(_)
RECURSIVE requiresSeq(_, _)
requiresSeq(es, i) ==
    IF i > Len(es) THEN pAny ELSE Max(requiresOf(es[i]), requiresSeq(es, i + 1))

\* Rule.requires as the parser infers it from an expression
requiresOf(e) ==
    CASE e.t = "not" -> requiresOf(e.node)
      [] e.t = "or" -> Max(requiresOf(e.left), requiresOf(e.right))
      [] e.t = "and" -> requiresSeq(e.nodes, 1)
      [] OTHER -> needs(e)

\* a rule as the parser builds it; deferto is pAny without an explicit phase
mkRule(defer, res, cls) ==
    Rule(res, requiresSeq([i \in 1..Len(cls) |-> cls[i].expr], 1), defer, cls)

\* is the rule checked at phase ph
eligible(r, ph) ==
    /\ r.requires <= ph
    /\ (r.deferto = pAny \/ r.deferto = ph)

\* one entry of the scan's record: rule i was checked on Context pre
Entry(i, pre, k) ==
    [idx |-> i, pre |-> pre, res |-> k.res, post |-> k.c, log |-> k.log,
     ncl |-> k.ncl]

Decided(a, cx, tr) == [action |-> a, c |-> cx, trace |-> tr]

RECURSIVE scanFrom(_, _, _, _, _, _)

\* what the scan does with the outcome k of the check of rule i, tr2 being
\* the record of the scan with this check
scanChecked(rules, i, ph, fl, k, tr2) ==
    IF k.res /\ rules[i].result # aNoresult
    THEN Decided(rules[i].result, k.c, tr2)
    ELSE scanFrom(rules, i + 1, ph, k.c, fl, tr2)

scanRule(rules, i, ph, cx, fl, tr, k) ==
    scanChecked(rules, i, ph, fl, k, Append(tr, Entry(i, cx, k)))

scanFrom(rules, i, ph, cx, fl, tr) ==
    IF i > Len(rules)
    THEN Decided(aAccept, cx, tr)
    ELSE IF ~eligible(rules[i], ph)
    THEN scanFrom(rules, i + 1, ph, cx, fl, tr)
    ELSE scanRule(rules, i, ph, cx, fl, tr, check(rules[i], cx, fl))

\* the scan of the ruleset at phase ph; the with-properties start out empty
Decide(rules, ph, cx, fl) ==
    scanFrom(rules, 1, ph, [cx EXCEPT !.withprops = NoWiths], fl, <<>>)

-----------------------------------------------------------------------------
(* The rules of the documentation.                                         *)
MissingFile == "/missing/file"
NoSuchFile == "/no/such/file"
FileF == "file:F"

Hi == [message |-> "Hi"]
Bye == [message |-> "Bye"]

\* reject from info@fbi.gov to joe@example.com
RuleFbi ==
    mkRule(pAny, aReject,
           <<RClause(AndL(<<newFromNode("info@fbi.gov"),
                            newToNode("joe@example.com")>>), NoWiths)>>)

\* accept host .friend.com
RuleFriend ==
    mkRule(pAny, aAccept, <<RClause(newHostNode(".friend.com"), NoWiths)>>)

\* @helo accept helo liar.com with note "liar"
RuleLiar ==
    mkRule(pHelo, aAccept,
           <<RClause(newHeloNode("liar.com"), [note |-> "liar"])>>)

\* set-with from @a.b with message "Hi"; all with message "Bye"
RuleCompact ==
    mkRule(pAny, aNoresult,
           <<RClause(newFromNode("@a.b"), Hi),
             RClause(AllN, Bye)>>)

\* set-with from @a.b with message "Hi"
RuleSetHi == mkRule(pAny, aNoresult, <<RClause(newFromNode("@a.b"), Hi)>>)

\* set-with all with message "Bye"
RuleSetBye == mkRule(pAny, aNoresult, <<RClause(AllN, Bye)>>)

\* accept all or from /missing/file
RuleAllOrMissing ==
    mkRule(pAny, aAccept,
           <<RClause(OrN(AllN, newFromNode(MissingFile)), NoWiths)>>)

\* stall from /missing/file with note "n"; all
RuleMissingThenAll ==
    mkRule(pAny, aStall,
           <<RClause(newFromNode(MissingFile), [note |-> "n"]),
             RClause(AllN, NoWiths)>>)

\* @data reject tls off with message "No TLS" savedir "d"
RuleData ==
    mkRule(pData, aReject,
           <<RClause(TlsN(FALSE), [message |-> "No TLS", savedir |-> "d"])>>)

Catalog ==
    {RuleFbi, RuleFriend, RuleLiar, RuleCompact, RuleSetHi, RuleSetBye,
     RuleAllOrMissing, RuleMissingThenAll, RuleData}

-----------------------------------------------------------------------------
(* The inputs of a conversation.                                           *)
MaxRules == 2

Rulesets == UNION {[1..n -> Catalog] : n \in 0..MaxRules}

\* file:F is missing, empty or has patterns; the other files never exist
FileEnvs ==
    {<<>>} \cup {[f \in {FileF} |-> l] : l \in {<<>>, <<"@a.b", "joe@example.com">>}}

\* the files of a conversation: file:F has patterns
ConvFiles == [f \in {FileF} |-> <<"@a.b", "joe@example.com">>]

HostLists == {<<"mx.friend.com", "mail.other.org">>}
HeloNames == {"liar.com", "mx.friend.com"}
FromAddrs == {"info@fbi.gov", "INFO@fbi.gov", "x@a.b"}
ToAddrs == {"joe@example.com", "x@a.b"}

NoDecision == [action |-> aError, withprops |-> NoWiths]

\* no rule text is being parsed
NoText == [stage |-> "none"]

\* no expression is being evaluated
NoEval == [stage |-> "none"]

\* no domain is being looked up
NoLookup == [stage |-> "none"]

\* the resolver of a conversation knows no name
NoResolver == [mx |-> <<>>, ip |-> <<>>]

\* a Context at the start of a connection.  Next to the fields of the program
\* it holds what the program reaches through it: the resolver (res), the
\* names a blocklist lists (listed), the order in which a map of names is
\* traversed (order) and the blocklist names probed so far (probed).
newContext(v) ==
    [rulemiss |-> FALSE, withprops |-> NoWiths, heloname |-> "", from |-> "",
     rcptto |-> "", tlson |-> FALSE, verified |-> v, nofwd |-> <<>>,
     inconsist |-> <<>>, rip |-> "", lip |-> "", dnsblhit |-> <<>>,
     res |-> NoResolver, listed |-> {}, order |-> <<>>, probed |-> <<>>]

Init ==
    /\ ruleset \in Rulesets
    /\ files = ConvFiles
    /\ c \in {newContext(v) : v \in HostLists}
    /\ phase = pAny
    /\ decision = NoDecision
    /\ trace = <<>>
    /\ rt = NoText
    /\ ev = NoEval
    /\ dns = NoLookup

\* the Context, the decision and the record that a scan with the outcome d
\* leaves
Scanned(ph, d) ==
    /\ c' = d.c
    /\ decision' = [action |-> d.action, withprops |-> d.c.withprops]
    /\ trace' = d.trace
    /\ phase' = ph
    /\ UNCHANGED <<ruleset, files, rt, ev, dns>>

\* the protocol layer asks for the decision of phase ph on Context cx
Scan(ph, cx) == Scanned(ph, Decide(ruleset, ph, cx, files))

Connect ==
    /\ phase = pAny
    /\ Scan(pConnect, c)

Helo ==
    /\ phase \in {pConnect, pHelo}
    /\ \E h \in HeloNames : Scan(pHelo, [c EXCEPT !.heloname = h])

StartTls ==
    /\ phase = pHelo
    /\ ~c.tlson
    /\ c' = [c EXCEPT !.tlson = TRUE]
    /\ UNCHANGED <<ruleset, files, phase, decision, trace, rt, ev, dns>>

MailFrom ==
    /\ phase \in {pHelo, pMessage}
    /\ \E a \in FromAddrs : Scan(pMfrom, [c EXCEPT !.from = a, !.rcptto = ""])

RcptTo ==
    /\ phase \in {pMfrom, pRto}
    /\ \E a \in ToAddrs : Scan(pRto, [c EXCEPT !.rcptto = a])

Data ==
    /\ phase = pRto
    /\ Scan(pData, c)

Message ==
    /\ phase = pData
    /\ Scan(pMessage, c)

Next == Connect \/ Helo \/ StartTls \/ MailFrom \/ RcptTo \/ Data \/ Message

Spec == Init /\ [][Next]_vars

-----------------------------------------------------------------------------
(* Rule.check on its own: one rule, checked once on a Context.             *)
MaxClauses == 2

UnitExprs ==
    {AllN,
     newFromNode("@a.b"),
     newFromNode(MissingFile),
     newFromNode(FileF),
     NotN(newFromNode("@a.b")),
     NotN(newToNode(FileF)),
     OrN(AllN, newFromNode(MissingFile)),
     OrN(newFromNode(MissingFile), AllN),
     AndL(<<newFromNode("@a.b"), newFromNode(NoSuchFile)>>)}

UnitWiths == {Hi, [message |-> "Bye", note |-> "n"]}

UnitClauses == {RClause(e, w) : e \in UnitExprs, w \in UnitWiths}

UnitRules ==
    {mkRule(pAny, aNoresult, cls) :
        cls \in UNION {[1..n -> UnitClauses] : n \in 0..MaxClauses}}

UnitContexts ==
    {[newContext(<<>>) EXCEPT !.rulemiss = m, !.withprops = w,
                              !.heloname = "liar.com", !.from = a,
                              !.rcptto = "joe@example.com"] :
        m \in BOOLEAN, w \in {NoWiths, [message |-> "Old", savedir |-> "d"]},
        a \in {"x@a.b", "info@fbi.gov"}}

InitCheck ==
    /\ ruleset \in {<<r>> : r \in UnitRules}
    /\ files \in FileEnvs
    /\ c \in UnitContexts
    /\ phase = pAny
    /\ decision = NoDecision
    /\ trace = <<>>
    /\ rt = NoText
    /\ ev = NoEval
    /\ dns = NoLookup

\* one call of Rule.check
CheckRule ==
    /\ trace = <<>>
    /\ LET k == check(ruleset[1], c, files)
       IN  /\ c' = k.c
           /\ trace' = <<Entry(1, c, k)>>
    /\ UNCHANGED <<ruleset, files, phase, decision, rt, ev, dns>>

NextCheck == CheckRule

SpecCheck == InitCheck /\ [][NextCheck]_vars

-----------------------------------------------------------------------------
(* Eval on its own: one expression, evaluated once on a Context.           *)

FileH == "file:H"
EmptyFile == "file:E"
Dbl == "dbl.example.org"
Sbl == "sbl.example.org"

\* file:H has hostname patterns, file:E is empty, the others do not exist
EvalFiles ==
    [f \in {FileH, EmptyFile} |->
        IF f = FileH THEN <<".friend.com", "liar.com">> ELSE <<>>]

\* friend.com has a good MX, jim.bob only an address, slow.example times out
EvalResolver ==
    [mx |-> [n \in {"friend.com.", "slow.example."} |->
                IF n = "friend.com."
                THEN [err |-> "nil", recs |-> <<[host |-> "mail.friend.com.", pref |-> 10]>>]
                ELSE [err |-> "timeout", recs |-> <<>>]],
     ip |-> [n \in {"mail.friend.com.", "jim.bob."} |->
                IF n = "jim.bob."
                THEN [err |-> "nil", recs |-> <<"192.0.2.9">>]
                ELSE [err |-> "nil", recs |-> <<"192.0.2.25">>]]]

EvalHelos == {"", "mx.friend.com"}

\* plain, quoted, route, unqualified, no sender, and a domain without answer
EvalFroms ==
    {"", "x@friend.com", "\"fred\"@jim.bob", "@jones:user@jim.bob",
     "joe@localname", "y@slow.example"}

\* the verified, no-forward and inconsistent names of the remote IP
EvalRdns ==
    {<<<<>>, <<>>, <<>>>>,
     <<<<"mx.friend.com.">>, <<>>, <<>>>>,
     <<<<"mx.friend.com", "a.other.org.">>, <<"nf.example.">>, <<>>>>,
     <<<<"mx.friend.com.">>, <<>>, <<"inc.example.">>>>,
     <<<<>>, <<"nf.example.">>, <<>>>>,
     <<<<>>, <<>>, <<"mx.friend.com.">>>>,
     <<<<"mx.friend.com.">>, <<"nf.example.">>, <<"nf.example.">>>>,
     <<<<>>, <<"nf.example.">>, <<"inc.example.">>>>}

EvalIPs == {"", "192.0.2.7", "2001:db8::1"}

\* what the blocklists list
EvalListed ==
    {{},
     {"7.2.0.192." \o Sbl, "friend.com." \o Dbl},
     {"mx.friend.com." \o Dbl},
     {"nf.example." \o Dbl, "192.0.2.7." \o Sbl, "mx.friend.co." \o Dbl}}

EvalContexts ==
    {[newContext(d[1]) EXCEPT !.heloname = h, !.from = a,
                              !.rcptto = "\"fred\"@jim.bob",
                              !.nofwd = d[2], !.inconsist = d[3],
                              !.rip = ip, !.lip = "192.0.2.1",
                              !.res = EvalResolver, !.listed = l] :
        h \in EvalHelos, a \in EvalFroms, d \in EvalRdns, ip \in EvalIPs,
        l \in EvalListed}

EvalExprs ==
    {newSourceNode("mx.friend.com"), newSourceNode(".friend.com"),
     newSourceNode(FileH), newSourceNode(EmptyFile),
     newDblNode(oHost, Dbl), newDblNode(oEhlo \cup oFrom, Dbl), newDblNode(oAny, Dbl),
     DNSblN(Sbl),
     newHostNode(".friend.com"), newHostNode(FileH), newHeloNode("mx.friend.com"),
     newFromNode("@friend.com"), newToNode("@jim.bob"), newIPNode("192.0.2.0/24"),
     newFromHasOpt(oBad), newToHasOpt(oBad), newFromHasOpt(oQuoted \cup oNoat),
     newDnsOpt(oGood), newDnsOpt(oExists), newDnsOpt(oNofwd \cup oInconsist)}

\* the names of every dbl node of an expression on a Context
RECURSIVE ChecksOf(_, _)
ChecksOf(e, cx) ==
    CASE e.t = "dbl" -> dblCheck(e, cx)
      [] e.t = "not" -> ChecksOf(e.node, cx)
      [] e.t = "or" -> ChecksOf(e.left, cx) \cup ChecksOf(e.right, cx)
      [] e.t = "and" -> UNION {ChecksOf(e.nodes[i], cx) : i \in 1..Len(e.nodes)}
      [] OTHER -> {}

\* the parts of a Context that a node never reads are left at their
\* values of a fresh connection
ReadsListed(e) == e.t \in {"dbl", "dnsbl"}

ReadsIP(e) == e.t = "dnsbl" \/ (e.t = "match" /\ e.what = "ip")

ReadsNames(e) == ~ReadsIP(e)

Fresh(e, cx) ==
    /\ (~ReadsListed(e) => cx.listed = {})
    /\ (~ReadsIP(e) => cx.rip = "")
    /\ (~ReadsNames(e) =>
           /\ cx.heloname = "" /\ cx.from = ""
           /\ cx.verified = <<>> /\ cx.nofwd = <<>> /\ cx.inconsist = <<>>)

InitEval ==
    /\ ruleset = <<>>
    /\ files = EvalFiles
    /\ phase = pAny
    /\ decision = NoDecision
    /\ trace = <<>>
    /\ rt = NoText
    /\ dns = NoLookup
    /\ \E e \in EvalExprs, cx \in EvalContexts :
        /\ Fresh(e, cx)
        /\ ev = [stage |-> "ready", expr |-> e]
        /\ c \in {[cx EXCEPT !.order = o] : o \in Orders(ChecksOf(e, cx))}

evaluated(e, pre, x) ==
    [stage |-> "done", expr |-> e, pre |-> pre, r |-> x.r, log |-> x.log]

\* one call of Eval
EvalExpr ==
    /\ ev.stage = "ready"
    /\ \E x \in {Eval(ev.expr, c, files, <<>>)} :
        /\ ev' = evaluated(ev.expr, c, x)
        /\ c' = x.c
    /\ UNCHANGED <<ruleset, files, phase, decision, trace, rt, dns>>

NextEval == EvalExpr

SpecEval == InitEval /\ [][NextEval]_vars

-----------------------------------------------------------------------------
(* ValidDomain on its own: one domain, looked up once in a resolver.       *)

\* the longest MX answer
MaxMX == 3

DnsDomain == "d.example"

\* the address records of the MX targets: a public address, a private one,
\* a timeout, a server failure, an empty answer; gone.example. is not there
HostTable ==
    [n \in {"good.example.", "priv.example.", "slow.example.", "fail.example.",
            "noip.example."} |->
        CASE n = "good.example." -> [err |-> "nil", recs |-> <<"192.0.2.25", "2001:db8::25">>]
          [] n = "priv.example." -> [err |-> "nil", recs |-> <<"192.0.2.26", "10.0.0.1">>]
          [] n = "slow.example." -> [err |-> "timeout", recs |-> <<>>]
          [] n = "fail.example." -> [err |-> "servfail", recs |-> <<>>]
          [] OTHER -> [err |-> "nil", recs |-> <<>>]]

MXRecords ==
    {[host |-> ".", pref |-> 0], [host |-> ".", pref |-> 10],
     [host |-> "LocalHost.", pref |-> 10]}
    \cup {[host |-> h, pref |-> 10] :
            h \in {"good.example.", "priv.example.", "slow.example.",
                   "fail.example.", "gone.example."}}

\* what the MX lookup of the domain can answer
MXAnswers ==
    {[err |-> "nil", recs |-> q] : q \in UNION {[1..n -> MXRecords] : n \in 0..MaxMX}}
    \cup {[err |-> e, recs |-> <<>>] : e \in {"timeout", "servfail", "nxdomain"}}

\* what the address lookup of the domain itself can answer
DomainIPAnswers ==
    {[err |-> "nil", recs |-> <<"192.0.2.80">>], [err |-> "nil", recs |-> <<"127.0.0.1">>],
     [err |-> "nxdomain", recs |-> <<>>], [err |-> "timeout", recs |-> <<>>]}

Resolver(mx, ip) ==
    [mx |-> [n \in {DnsDomain \o "."} |-> mx],
     ip |-> [n \in DOMAIN HostTable \cup {DnsDomain \o "."} |->
                IF n \in DOMAIN HostTable THEN HostTable[n] ELSE ip]]

\* the address records of the domain are only asked for after a failed MX
\* lookup
Resolvers ==
    {Resolver(mx, ip) : mx \in MXAnswers, ip \in DomainIPAnswers}

InitDNS ==
    /\ ruleset = <<>>
    /\ files = <<>>
    /\ c = newContext(<<>>)
    /\ phase = pAny
    /\ decision = NoDecision
    /\ trace = <<>>
    /\ rt = NoText
    /\ ev = NoEval
    /\ \E r \in Resolvers :
        /\ (r.mx[DnsDomain \o "."].err = "nil" =>
               r.ip[DnsDomain \o "."] = [err |-> "nxdomain", recs |-> <<>>])
        /\ dns = [stage |-> "ready", domain |-> DnsDomain, res |-> r]

validated(d, x) ==
    [stage |-> "done", domain |-> d.domain, res |-> d.res,
     v |-> x.v, err |-> x.err, looked |-> x.looked]

\* one call of ValidDomain
Validate ==
    /\ dns.stage = "ready"
    /\ dns' = validated(dns, ValidDomain(dns.res, dns.domain))
    /\ UNCHANGED <<ruleset, files, c, phase, decision, trace, rt, ev>>

NextDNS == Validate

SpecDNS == InitDNS /\ [][NextDNS]_vars

-----------------------------------------------------------------------------
(* checkIP on its own: one host name, its addresses looked up once.        *)

\* the longest address answer
MaxAddrs == 2

IpHost == "mx.example."

\* addresses inside and just outside of each block that checkIP looks at
AddrPool ==
    {"192.0.2.25", "11.0.0.1", "172.15.0.1", "172.32.0.1", "192.169.0.1",
     "2001:db8::25",
     "10.0.0.1", "172.16.0.1", "172.31.255.254", "192.168.1.1",
     "fc00::1", "fd12:3456::1", "fec0::1", "feff::1",
     "127.0.0.1", "224.0.0.1", "169.254.1.1", "0.0.0.0", "255.255.255.255",
     "::1", "ff02::1", "fe80::1", "fe90::1",
     "fd::1", "fec::1", "ff::1"}

\* what the address lookup of the host can answer
IPAnswers ==
    {[err |-> "nil", recs |-> q] : q \in UNION {[1..n -> AddrPool] : n \in 0..MaxAddrs}}
    \cup {[err |-> e, recs |-> <<>>] : e \in {"timeout", "servfail", "nxdomain"}}

InitIP ==
    /\ ruleset = <<>>
    /\ files = <<>>
    /\ c = newContext(<<>>)
    /\ phase = pAny
    /\ decision = NoDecision
    /\ trace = <<>>
    /\ rt = NoText
    /\ ev = NoEval
    /\ \E a \in IPAnswers :
        dns = [stage |-> "host", host |-> IpHost,
               res |-> [mx |-> <<>>, ip |-> [n \in {IpHost} |-> a]]]

checked(d, x) ==
    [stage |-> "checked", host |-> d.host, res |-> d.res, v |-> x.v, err |-> x.err]

\* one call of checkIP
CheckHost ==
    /\ dns.stage = "host"
    /\ dns' = checked(dns, checkIP(dns.res, dns.host))
    /\ UNCHANGED <<ruleset, files, c, phase, decision, trace, rt, ev>>

NextIP == CheckHost

SpecIP == InitIP /\ [][NextIP]_vars

-----------------------------------------------------------------------------
(* matchAddress and matchHost on their own: one value, one pattern.  Each  *)
(* value and pattern comes with what it is made of, written in lower case: *)
(* the local part, the labels of the domain, whether there is an '@'.      *)

AddrCase(text, local, dom, at) == [text |-> text, local |-> local, dom |-> dom, at |-> at]

AddrCases ==
    {AddrCase("", "", <<>>, FALSE),
     AddrCase("abc", "abc", <<>>, FALSE),
     AddrCase("noat", "noat", <<>>, FALSE),
     AddrCase("anything", "anything", <<>>, FALSE),
     AddrCase("abc@def", "abc", <<"def">>, TRUE),
     AddrCase("ABC@DEF", "abc", <<"def">>, TRUE),
     AddrCase("xyz@def", "xyz", <<"def">>, TRUE),
     AddrCase("def@abc", "def", <<"abc">>, TRUE),
     AddrCase("abc@ghi", "abc", <<"ghi">>, TRUE),
     AddrCase("abc@def.ghi", "abc", <<"def", "ghi">>, TRUE),
     AddrCase("abc@x.def.ghi", "abc", <<"x", "def", "ghi">>, TRUE),
     AddrCase("abc@zamdef.ghi", "abc", <<"zamdef", "ghi">>, TRUE),
     AddrCase("anything@anything", "anything", <<"anything">>, TRUE),
     AddrCase("@route", "", <<"route">>, TRUE),
     AddrCase("@def", "", <<"def">>, TRUE),
     AddrCase("broken@", "broken", <<>>, TRUE),
     AddrCase("abc@", "abc", <<>>, TRUE)}

AddrPat(text, kind, local, dom) == [text |-> text, kind |-> kind, local |-> local, dom |-> dom]

AddrPatterns ==
    {AddrPat("<>", "null", "", <<>>),
     AddrPat("abc@def", "literal", "abc", <<"def">>),
     AddrPat("Abc@Def", "literal", "abc", <<"def">>),
     AddrPat("abc@", "local", "abc", <<>>),
     AddrPat("def@", "local", "def", <<>>),
     AddrPat("@def", "domain", "", <<"def">>),
     AddrPat("@ghi", "domain", "", <<"ghi">>),
     AddrPat("@def.ghi", "domain", "", <<"def", "ghi">>),
     AddrPat("@.ghi", "subdomain", "", <<"ghi">>),
     AddrPat("@.def.ghi", "subdomain", "", <<"def", "ghi">>),
     AddrPat("@", "any", "", <<>>),
     AddrPat("not", "word", "not", <<>>)}

\* a host: its text and its labels; the root '.' has none
HostCases ==
    {[text |-> "abc", labels |-> <<"abc">>],
     [text |-> "ABC", labels |-> <<"abc">>],
     [text |-> "def", labels |-> <<"def">>],
     [text |-> "not", labels |-> <<"not">>],
     [text |-> "prefabc", labels |-> <<"prefabc">>],
     [text |-> "x.abc", labels |-> <<"x", "abc">>],
     [text |-> "abc.def", labels |-> <<"abc", "def">>],
     [text |-> "abc.def.ghi", labels |-> <<"abc", "def", "ghi">>],
     [text |-> ".", labels |-> <<>>]}

HostPatterns ==
    {[text |-> "abc", kind |-> "exact", labels |-> <<"abc">>],
     [text |-> "Abc", kind |-> "exact", labels |-> <<"abc">>],
     [text |-> "not", kind |-> "exact", labels |-> <<"not">>],
     [text |-> "abc.def", kind |-> "exact", labels |-> <<"abc", "def">>],
     [text |-> ".abc", kind |-> "suffix", labels |-> <<"abc">>],
     [text |-> ".def", kind |-> "suffix", labels |-> <<"def">>],
     [text |-> ".ghi", kind |-> "suffix", labels |-> <<"ghi">>],
     [text |-> ".def.ghi", kind |-> "suffix", labels |-> <<"def", "ghi">>],
     [text |-> ".not", kind |-> "suffix", labels |-> <<"not">>],
     [text |-> ".", kind |-> "root", labels |-> <<>>]}

InitMatch ==
    /\ ruleset = <<>>
    /\ files = <<>>
    /\ c = newContext(<<>>)
    /\ phase = pAny
    /\ decision = NoDecision
    /\ trace = <<>>
    /\ rt = NoText
    /\ dns = NoLookup
    /\ \/ \E a \in AddrCases, p \in AddrPatterns :
            ev = [stage |-> "addr", v |-> a, pat |-> p]
       \/ \E h \in HostCases, p \in HostPatterns :
            ev = [stage |-> "host", v |-> h, pat |-> p]

\* one call of matchAddress
AddrMatch ==
    /\ ev.stage = "addr"
    /\ ev' = [stage |-> "addr matched", v |-> ev.v, pat |-> ev.pat,
              r |-> matchAddress(ev.v.text, ev.pat.text)]
    /\ UNCHANGED <<ruleset, files, c, phase, decision, trace, rt, dns>>

\* one call of matchHost
HostMatch ==
    /\ ev.stage = "host"
    /\ ev' = [stage |-> "host matched", v |-> ev.v, pat |-> ev.pat,
              r |-> matchHost(ev.v.text, ev.pat.text)]
    /\ UNCHANGED <<ruleset, files, c, phase, decision, trace, rt, dns>>

NextMatch == AddrMatch \/ HostMatch

SpecMatch == InitMatch /\ [][NextMatch]_vars

-----------------------------------------------------------------------------
(* getAddrOpts and the from source of dbl on their own: the attributes of  *)
(* one MAIL FROM address, then one 'dbl from' on the same Context.         *)

\* a MAIL FROM address and its domain segment, the text after the '@' that
\* ends the local part ("" where the address has none)
FromCase(text, segment) == [text |-> text, segment |-> segment]

FromCases ==
    {FromCase("", ""),
     FromCase("noat", ""),
     FromCase("x@friend.com", "friend.com"),
     FromCase("X@Mail.Friend.COM", "Mail.Friend.COM"),
     FromCase("\"fred\"@jim.bob", "jim.bob"),
     FromCase("\"fred@bob\"@example.org", "example.org"),
     FromCase("\"fred\"@jones", "jones"),
     FromCase("jim@jones", "jones"),
     FromCase("@jones:user@jim.bob", "jim.bob"),
     FromCase("@j:user@jim", "jim"),
     FromCase("@garbage", "garbage"),
     FromCase("garbage@", ""),
     FromCase("<job@jim.bob", "jim.bob"),
     FromCase("joe..@jim.bob", "jim.bob"),
     FromCase("joe@@jim.bob", "@jim.bob"),
     FromCase("joe@jim.bob\"", "jim.bob\""),
     FromCase("joe@jim.bob>", "jim.bob>"),
     FromCase("\"joe..bob\"@jim.bob", "jim.bob")}

\* what the resolver knows of every domain: a good MX target, no such name,
\* a timeout, or an MX answer without records
DomainKinds == {"good", "gone", "slow", "empty"}

MailHost == "mail.example."

KindResolver(k) ==
    [mx |-> [n \in {f.segment \o "." : f \in FromCases} |->
                CASE k = "good" -> [err |-> "nil", recs |-> <<[host |-> MailHost, pref |-> 10]>>]
                  [] k = "gone" -> [err |-> "nxdomain", recs |-> <<>>]
                  [] k = "slow" -> [err |-> "timeout", recs |-> <<>>]
                  [] OTHER -> [err |-> "nil", recs |-> <<>>]],
     ip |-> [n \in {MailHost} |-> [err |-> "nil", recs |-> <<"192.0.2.25">>]]]

AddrListed == {{}, {"friend.com." \o Dbl, "example.org." \o Dbl}}

InitAddr ==
    /\ ruleset = <<>>
    /\ files = <<>>
    /\ phase = pAny
    /\ decision = NoDecision
    /\ trace = <<>>
    /\ rt = NoText
    /\ dns = NoLookup
    /\ \E f \in FromCases, k \in DomainKinds, l \in AddrListed :
        /\ c = [newContext(<<>>) EXCEPT !.from = f.text, !.res = KindResolver(k),
                                        !.listed = l]
        /\ ev = [stage |-> "from", case |-> f, kind |-> k]

\* getFromOpts on the Context
Classify ==
    /\ ev.stage = "from"
    /\ ev' = [stage |-> "opts", case |-> ev.case, kind |-> ev.kind,
              opts |-> getFromOpts(c)]
    /\ UNCHANGED <<ruleset, files, c, phase, decision, trace, rt, dns>>

dblDone(e, x) ==
    [stage |-> "dbl", case |-> e.case, kind |-> e.kind, opts |-> e.opts,
     r |-> x.r, probed |-> x.c.probed]

\* 'dbl from' evaluated on the Context
DblFrom ==
    /\ ev.stage = "opts"
    /\ \E x \in {Eval(newDblNode(oFrom, Dbl), c, files, <<>>)} :
        /\ ev' = dblDone(ev, x)
        /\ c' = x.c
    /\ UNCHANGED <<ruleset, files, phase, decision, trace, rt, dns>>

NextAddr == Classify \/ DblFrom

SpecAddr == InitAddr /\ [][NextAddr]_vars

-----------------------------------------------------------------------------
(* Rule.check on rules of every kind of node: pattern matchers with and    *)
(* without patterns, the nodes that read no pattern list, and combinators. *)

SignalExprs ==
    {AllN, TlsN(TRUE), DNSblN(Sbl), newDblNode(oEhlo, Dbl), newFromHasOpt(oBad),
     newDnsOpt(oNodns),
     OrN(NotN(TlsN(TRUE)), DNSblN(Sbl)),
     AndL(<<TlsN(TRUE), newHostNode(EmptyFile)>>),
     AndL(<<newFromNode("@friend.com"), newToNode(MissingFile)>>),
     newFromNode(EmptyFile), newFromNode(FileH), newIPNode(NoSuchFile),
     newSourceNode(EmptyFile), newSourceNode(FileH),
     OrN(newHeloNode(EmptyFile), AllN),
     NotN(newToNode(EmptyFile))}

SignalRules ==
    {mkRule(pAny, aNoresult, cls) :
        cls \in UNION {[1..n -> {RClause(e, Hi) : e \in SignalExprs}] :
                          n \in 0..MaxClauses}}

SignalContexts ==
    {[newContext(<<"mx.friend.com.">>) EXCEPT
          !.rulemiss = m, !.tlson = t, !.rip = ip, !.from = a,
          !.heloname = "mx.friend.com", !.rcptto = "joe@example.com",
          !.res = EvalResolver, !.listed = {"7.2.0.192." \o Sbl}] :
        m \in BOOLEAN, t \in BOOLEAN, ip \in {"", "192.0.2.7"},
        a \in {"x@friend.com", "y@other.org"}}

InitSignal ==
    /\ ruleset \in {<<r>> : r \in SignalRules}
    /\ files = EvalFiles
    /\ c \in SignalContexts
    /\ phase = pAny
    /\ decision = NoDecision
    /\ trace = <<>>
    /\ rt = NoText
    /\ ev = NoEval
    /\ dns = NoLookup

SpecSignal == InitSignal /\ [][NextCheck]_vars

-----------------------------------------------------------------------------
(* The lexer and the parser of one rule.                                   *)

Tok(k, v) == [k |-> k, v |-> v]

\* the characters that end a word
IsDelim(ch) == ch \in {" ", "(", ")", ";", "\""}

\* the length of the word at the start of s: up to a delimiter or the end
WordLen(s) ==
    CHOOSE n \in 0..Len(s) :
        /\ \A j \in 1..n : ~IsDelim(Ch(s, j))
        /\ (n = Len(s) \/ IsDelim(Ch(s, n + 1)))

\* the number of spaces at the start of s
SpaceLen(s) ==
    CHOOSE n \in 0..Len(s) :
        /\ \A j \in 1..n : Ch(s, j) = " "
        /\ (n = Len(s) \/ Ch(s, n + 1) /= " ")

\* s after its first n characters and the spaces that follow them
After(s, n) == From(s, n + SpaceLen(From(s, n)))

\* the rest of a quoted string after its opening quote: a backslash makes
\* the next character literal, an unescaped quote ends the string
RECURSIVE LexQuoted(_, _)
LexQuoted(s, acc) ==
    IF s = "" THEN [ok |-> FALSE]
    ELSE IF Head(s) = "\\"
         THEN IF Len(s) >= 2 THEN LexQuoted(From(s, 2), acc \o Ch(s, 2))
              ELSE [ok |-> FALSE]
    ELSE IF Head(s) = "\"" THEN [ok |-> TRUE, v |-> acc, rest |-> Tail(s)]
    ELSE LexQuoted(Tail(s), acc \o Head(s))

\* the tokens of a rule text: words, quoted strings, "(", ")" and ";"
RECURSIVE Lex(_)

\* the token of the quoted string q, and the tokens after it
strOf(q) ==
    IF q.ok THEN <<Tok("str", q.v)>> \o Lex(After(q.rest, 0))
    ELSE <<Tok("err", "unterminated quoted string")>>

\* the word of the first n characters of s, and the tokens after it
wordOf(s, n) == <<Tok("word", SubSeq(s, 1, n))>> \o Lex(After(s, n))

\* the tokens of a text s that starts with the character ch
lexAt(s, ch) ==
    CASE ch = " " -> Lex(After(s, 0))
      [] ch = "(" -> <<Tok("lp", "(")>> \o Lex(After(s, 1))
      [] ch = ")" -> <<Tok("rp", ")")>> \o Lex(After(s, 1))
      [] ch = ";" -> <<Tok("semi", ";")>> \o Lex(After(s, 1))
      [] ch = "\"" -> strOf(LexQuoted(Tail(s), ""))
      [] OTHER -> wordOf(s, WordLen(s))

Lex(s) == IF s = "" THEN <<>> ELSE lexAt(s, Head(s))


phaseWords ==
    {<<"@connect", pConnect>>, <<"@helo", pHelo>>, <<"@from", pMfrom>>,
     <<"@to", pRto>>, <<"@data", pData>>, <<"@message", pMessage>>}

actionWords ==
    {<<"accept", aAccept>>, <<"reject", aReject>>, <<"stall", aStall>>,
     <<"set-with", aNoresult>>}

\* the value paired with word w in a set of <<word, value>> pairs
Has(m, w) == \E kv \in m : kv[1] = w
Lookup(m, w) == (CHOOSE kv \in m : kv[1] = w)[2]

Fail == [ok |-> FALSE]
Parsed(e, i) == [ok |-> TRUE, e |-> e, i |-> i]

IsWord(ts, i, w) == i <= Len(ts) /\ ts[i].k = "word" /\ ts[i].v = w
IsArg(ts, i) == i <= Len(ts) /\ ts[i].k \in {"word", "str"}

RECURSIVE SplitComma(_)
SplitComma(s) ==
    LET n == IndexByte(s, ",")
    IN  IF n < 0 THEN <<s>> ELSE <<SubSeq(s, 1, n)>> \o SplitComma(From(s, n + 1))

\* the options of a comma-separated attribute list, given the words of m
parseOptions(m, ts, i) ==
    IF ~(i <= Len(ts) /\ ts[i].k = "word") THEN Fail
    ELSE LET ws == SplitComma(ts[i].v)
         IN  IF \A j \in 1..Len(ws) : Has(m, ws[j])
             THEN Parsed(UNION {Lookup(m, ws[j]) : j \in 1..Len(ws)}, i + 1)
             ELSE Fail

\* the operators that take one pattern argument
argOps ==
    {<<"from", "from">>, <<"to", "to">>, <<"helo", "helo">>,
     <<"host", "host">>, <<"ip", "ip">>, <<"source", "source">>,
     <<"dnsbl", "dnsbl">>}

mkArgNode(op, arg) ==
    CASE op = "from" -> newFromNode(arg)
      [] op = "to" -> newToNode(arg)
      [] op = "helo" -> newHeloNode(arg)
      [] op = "host" -> newHostNode(arg)
      [] op = "ip" -> newIPNode(arg)
      [] op = "source" -> newSourceNode(arg)
      [] op = "dnsbl" -> DNSblN(arg)

\* the operators that take an attribute list
optOps ==
    {<<"dns", "dns">>, <<"helo-has", "helo">>, <<"from-has", "addr">>,
     <<"to-has", "addr">>}

mkOptNode(op, o) ==
    CASE op = "dns" -> newDnsOpt(o)
      [] op = "helo-has" -> newHeloOpt(o)
      [] op = "from-has" -> newFromHasOpt(o)
      [] op = "to-has" -> newToHasOpt(o)

RECURSIVE parseTerm(_, _), parseOr(_, _), parseNodes(_, _, _), parseAndL(_, _)

\* what a parsed operand r becomes after 'not'
notOf(r) == IF r.ok THEN Parsed(NotN(r.e), r.i) ELSE Fail

\* what a parsed sequence r becomes between parentheses
groupOf(ts, r) ==
    IF r.ok /\ r.i <= Len(ts) /\ ts[r.i].k = "rp" THEN Parsed(r.e, r.i + 1) ELSE Fail

\* 'dbl' with its parsed sources o, then its domain
dblOf(ts, o) ==
    IF o.ok /\ IsArg(ts, o.i) THEN Parsed(newDblNode(o.e, ts[o.i].v), o.i + 1) ELSE Fail

\* an attribute operator w with its parsed attributes o
optOf(w, o) == IF o.ok THEN Parsed(mkOptNode(w, o.e), o.i) ELSE Fail

\* the operator named by the word w at position i, with its argument
parseOp(w, ts, i) ==
    IF w = "all" THEN Parsed(AllN, i + 1)
    ELSE IF w = "tls"
         THEN IF IsWord(ts, i + 1, "on") THEN Parsed(TlsN(TRUE), i + 2)
              ELSE IF IsWord(ts, i + 1, "off") THEN Parsed(TlsN(FALSE), i + 2)
              ELSE Fail
    ELSE IF Has(argOps, w)
         THEN IF IsArg(ts, i + 1)
              THEN Parsed(mkArgNode(w, ts[i + 1].v), i + 2) ELSE Fail
    ELSE IF w = "dbl" THEN dblOf(ts, parseOptions(mapMap.dbl, ts, i + 1))
    ELSE IF Has(optOps, w)
         THEN optOf(w, parseOptions(mapMap[Lookup(optOps, w)], ts, i + 1))
    ELSE Fail

\* one match operator with its argument, a negation or a parenthesised group
parseTerm(ts, i) ==
    IF i > Len(ts) THEN Fail
    ELSE IF ts[i].k = "lp" THEN groupOf(ts, parseAndL(ts, i + 1))
    ELSE IF ts[i].k /= "word" THEN Fail
    ELSE IF ts[i].v = "not" THEN notOf(parseTerm(ts, i + 1))
    ELSE parseOp(ts[i].v, ts, i)

\* the parsed operand l joined to what follows 'or'
orJoin(l, r) == IF r.ok THEN Parsed(OrN(l.e, r.e), r.i) ELSE Fail

RECURSIVE orOf(_, _)
orOf(ts, l) ==
    IF ~l.ok THEN Fail
    ELSE IF IsWord(ts, l.i, "or") THEN orJoin(l, parseOr(ts, l.i + 1))
    ELSE l

\* term [or term ...]: 'or' binds tighter than the implicit and
parseOr(ts, i) == orOf(ts, parseTerm(ts, i))

EndsAndL(ts, i) ==
    i > Len(ts) \/ ts[i].k \in {"rp", "semi"} \/ IsWord(ts, i, "with")

RECURSIVE nodesOf(_, _, _)
nodesOf(ts, acc, r) ==
    IF r.ok THEN parseNodes(ts, r.i, Append(acc, r.e)) ELSE Fail

parseNodes(ts, i, acc) ==
    IF EndsAndL(ts, i) THEN Parsed(acc, i) ELSE nodesOf(ts, acc, parseOr(ts, i))

\* a sequence of operators is an AndL; a sequence of one is that operator
andOf(r) ==
    IF ~r.ok THEN Fail
    ELSE IF Len(r.e) = 0 THEN Fail
    ELSE IF Len(r.e) = 1 THEN Parsed(r.e[1], r.i)
    ELSE Parsed(AndL(r.e), r.i)

parseAndL(ts, i) == andOf(parseNodes(ts, i, <<>>))

Put(m, k, v) == [x \in DOMAIN m \cup {k} |-> IF x = k THEN v ELSE m[x]]

\* the options after 'with', up to the end of the clause
RECURSIVE parseWiths(_, _, _)
parseWiths(ts, i, acc) ==
    IF i > Len(ts) \/ ts[i].k = "semi"
    THEN IF DOMAIN acc = {} THEN Fail ELSE Parsed(acc, i)
    ELSE IF ts[i].k /= "word" THEN Fail
    ELSE IF ts[i].v \in {"message", "note", "savedir"}
         THEN IF IsArg(ts, i + 1)
              THEN parseWiths(ts, i + 2, Put(acc, ts[i].v, ts[i + 1].v)) ELSE Fail
    ELSE IF ts[i].v = "tls-opt"
         THEN IF IsArg(ts, i + 1) /\ ts[i + 1].v \in {"off", "no-client"}
              THEN parseWiths(ts, i + 2, Put(acc, ts[i].v, ts[i + 1].v)) ELSE Fail
    ELSE IF ts[i].v = "make-yakker" THEN parseWiths(ts, i + 1, Put(acc, ts[i].v, ""))
    ELSE Fail

\* the clause of the parsed expression e and its parsed with-options w
withOf(e, w) == IF w.ok THEN Parsed(RClause(e.e, w.e), w.i) ELSE Fail

clauseOf(ts, e) ==
    IF ~e.ok THEN Fail
    ELSE IF IsWord(ts, e.i, "with") THEN withOf(e, parseWiths(ts, e.i + 1, NoWiths))
    ELSE Parsed(RClause(e.e, NoWiths), e.i)

parseClause(ts, i) == clauseOf(ts, parseAndL(ts, i))

\* clause [; clause ...] up to the end of the text
RECURSIVE parseClauses(_, _, _)
clausesOf(ts, acc, cl) ==
    IF ~cl.ok THEN Fail
    ELSE IF cl.i > Len(ts) THEN Parsed(Append(acc, cl.e), cl.i)
    ELSE IF ts[cl.i].k = "semi" THEN parseClauses(ts, cl.i + 1, Append(acc, cl.e))
    ELSE Fail

parseClauses(ts, i, acc) == clausesOf(ts, acc, parseClause(ts, i))

\* the checks made on a whole rule r
checkedRule(r) ==
    IF r.deferto /= pAny /\ r.deferto < r.requires THEN Fail
    ELSE IF r.result = aNoresult
            /\ \A j \in 1..Len(r.clauses) : DOMAIN r.clauses[j].withs = {}
         THEN Fail
    ELSE [ok |-> TRUE, rule |-> r]

ruleOf(defer, act, cls) ==
    IF ~cls.ok THEN Fail ELSE checkedRule(mkRule(defer, act, cls.e))

\* ACTION clause [; clause ...] from position ia, under the phase defer
parseAction(ts, ia, defer) ==
    IF ~(ia <= Len(ts) /\ ts[ia].k = "word" /\ Has(actionWords, ts[ia].v)) THEN Fail
    ELSE ruleOf(defer, Lookup(actionWords, ts[ia].v), parseClauses(ts, ia + 1, <<>>))

\* [PHASE] ACTION clause [; clause ...]
parseTokens(ts) ==
    IF \E j \in 1..Len(ts) : ts[j].k = "err" THEN Fail
    ELSE IF Len(ts) >= 1 /\ ts[1].k = "word" /\ Has(phaseWords, ts[1].v)
         THEN parseAction(ts, 2, Lookup(phaseWords, ts[1].v))
    ELSE parseAction(ts, 1, pAny)

parseRule(text) == parseTokens(Lex(text))

-----------------------------------------------------------------------------
(* A rule text through the parser, Rule.String and the parser again.       *)

\* what may stand before the clauses of a rule
RuleHeads ==
    {"accept", "reject", "stall", "set-with", "@helo reject", "@to accept",
     "@data reject", "@message stall"}

\* the clauses of the documentation's rules, and two with quoted strings
\* that hold a space or a quote
RuleBodies ==
    {"all",
     "from info@fbi.gov to joe@example.com",
     "not from info@fbi.gov to joe@example.com",
     "from info@fbi.gov ( to joe@example.com or to jim@example.org )",
     "(from info@fbi.gov or from @.mil or from bounce@) to fred@example.net not host trusted.host",
     "from-has bad,route",
     "to-has quoted,noat,garbage,route,unqualified",
     "helo-has none,properip,helo,bareip",
     "dns nodns or dns inconsistent,good",
     "dbl host,helo,from dbl.example.org ip 127.0.0.0/8",
     "dnsbl sbl.example.org tls off source /a/file",
     "all with message \"Hi there\"",
     "helo somehost with note \"n\" message \"That's nice\"; from @a.b with savedir \"d\" make-yakker tls-opt off; all with tls-opt no-client",
     "helo \"very \\\"\\\\ bogus\"",
     "all with message \"say \\\"hi\\\"\""}

RuleTexts == {h \o " " \o b : h \in RuleHeads, b \in RuleBodies}

InitRT ==
    /\ ruleset = <<>>
    /\ files = <<>>
    /\ c = newContext(<<>>)
    /\ phase = pAny
    /\ decision = NoDecision
    /\ trace = <<>>
    /\ rt \in {[stage |-> "text", text |-> t] : t \in RuleTexts}
    /\ ev = NoEval
    /\ dns = NoLookup

parsedText(text, p) ==
    IF p.ok THEN [stage |-> "parsed", text |-> text, rule |-> p.rule]
    ELSE [stage |-> "refused", text |-> text]

\* the parser reads the text: a rule, or an error
ParseText ==
    /\ rt.stage = "text"
    /\ rt' = parsedText(rt.text, parseRule(rt.text))
    /\ UNCHANGED <<ruleset, files, c, phase, decision, trace, ev, dns>>

\* Rule.String, for one traversal order of the maps
RenderRule ==
    /\ rt.stage = "parsed"
    /\ \E out \in RuleString(rt.rule) :
        rt' = [stage |-> "rendered", text |-> rt.text, rule |-> rt.rule,
               out |-> out]
    /\ UNCHANGED <<ruleset, files, c, phase, decision, trace, ev, dns>>

\* the parser reads the rendered text
ParseAgain ==
    /\ rt.stage = "rendered"
    /\ rt' = [stage |-> "done", text |-> rt.text, rule |-> rt.rule,
              out |-> rt.out, again |-> parseRule(rt.out)]
    /\ UNCHANGED <<ruleset, files, c, phase, decision, trace, ev, dns>>

NextRT == ParseText \/ RenderRule \/ ParseAgain

SpecRT == InitRT /\ [][NextRT]_vars

-----------------------------------------------------------------------------
(* Properties of Rule.check, stated on the recorded calls.                 *)

\* the rule of entry k of the scan's record
RuleOf(k) == ruleset[trace[k].idx]

\* clause i of entry k evaluated on its own, with the signal clear
ClauseEv(k, i) ==
    Eval(RuleOf(k).clauses[i].expr, [trace[k].pre EXCEPT !.rulemiss = FALSE],
         files, <<>>)

\* clauses 1..i-1 of entry k are false and raise no signal
NoneBefore(k, i) ==
    \A j \in 1..(i - 1) : ~ClauseEv(k, j).r /\ ~ClauseEv(k, j).c.rulemiss

RECURSIVE LogsUpTo(_, _)
LogsUpTo(k, i) == IF i = 0 THEN <<>> ELSE LogsUpTo(k, i - 1) \o ClauseEv(k, i).log

\* C1: when the data-unavailable signal is set after evaluating a clause,
\* Rule.check reports no match for the whole rule, merges no with-properties
\* and evaluates none of the remaining clauses, whatever the clause returned.
C1_RulemissSkipsRule ==
    \A k \in 1..Len(trace) :
        \A i \in 1..Len(RuleOf(k).clauses) :
            (NoneBefore(k, i) /\ ClauseEv(k, i).c.rulemiss) =>
                /\ trace[k].res = FALSE
                /\ trace[k].post.withprops = trace[k].pre.withprops
                /\ trace[k].ncl = i
                /\ trace[k].log = LogsUpTo(k, i)

\* a clause raised the signal and was true, and the next clause would match
C1_Witness ==
    \E k \in 1..Len(trace) :
        \E i \in 1..(Len(RuleOf(k).clauses) - 1) :
            /\ NoneBefore(k, i)
            /\ ClauseEv(k, i).c.rulemiss
            /\ ClauseEv(k, i).r
            /\ ClauseEv(k, i + 1).r
            /\ ~ClauseEv(k, i + 1).c.rulemiss
            /\ trace[k].res = FALSE

\* C2: Rule.check stops at the first clause that is true without the signal:
\* it merges exactly that clause's with-options (overwriting equal keys,
\* keeping the others), returns match and evaluates no later clause.
C2_FirstTrueClauseWins ==
    \A k \in 1..Len(trace) :
        \A i \in 1..Len(RuleOf(k).clauses) :
            (NoneBefore(k, i) /\ ClauseEv(k, i).r /\ ~ClauseEv(k, i).c.rulemiss) =>
                LET w == RuleOf(k).clauses[i].withs
                    old == trace[k].pre.withprops
                    new == trace[k].post.withprops
                IN  /\ trace[k].res = TRUE
                    /\ trace[k].ncl = i
                    /\ trace[k].log = LogsUpTo(k, i)
                    /\ DOMAIN new = DOMAIN old \cup DOMAIN w
                    /\ \A x \in DOMAIN w : new[x] = w[x]
                    /\ \A x \in DOMAIN old \ DOMAIN w : new[x] = old[x]

\* the first of two true clauses matched; it overwrote one key, kept another
C2_Witness ==
    \E k \in 1..Len(trace) :
        /\ Len(RuleOf(k).clauses) >= 2
        /\ ClauseEv(k, 1).r /\ ~ClauseEv(k, 1).c.rulemiss
        /\ ClauseEv(k, 2).r /\ ~ClauseEv(k, 2).c.rulemiss
        /\ RuleOf(k).clauses[1].withs # RuleOf(k).clauses[2].withs
        /\ RuleOf(k).result = aNoresult
        /\ trace[k].res
        /\ trace[k].pre.withprops = [message |-> "Old", savedir |-> "d"]
        /\ trace[k].post.withprops = [message |-> "Hi", savedir |-> "d"]

\* C7: OrN evaluates its left operand first and, when it is true, returns
\* true without evaluating the right operand; the rule
\* `accept all or from /missing/file` matches in every context and the
\* data-unavailable signal is never raised while checking it.
C7_OrShortCircuit ==
    \A k \in 1..Len(trace) :
        \A i \in 1..Len(RuleOf(k).clauses) :
            LET e == RuleOf(k).clauses[i].expr
                l == Eval(e.left, [trace[k].pre EXCEPT !.rulemiss = FALSE],
                          files, <<>>)
            IN  /\ (NoneBefore(k, i) /\ e.t = "or" /\ l.r /\ ~l.c.rulemiss) =>
                      /\ trace[k].res
                      /\ trace[k].ncl = i
                      /\ trace[k].log = LogsUpTo(k, i - 1) \o l.log
                      /\ ~trace[k].post.rulemiss
                /\ (i = 1 /\ e = OrN(AllN, newFromNode(MissingFile))) =>
                      /\ trace[k].res
                      /\ trace[k].log = <<AllN>>
                      /\ ~trace[k].post.rulemiss

\* `all or from /missing/file` was checked on a Context that had the signal set
C7_Witness ==
    \E k \in 1..Len(trace) :
        /\ Len(RuleOf(k).clauses) >= 1
        /\ RuleOf(k).clauses[1].expr = OrN(AllN, newFromNode(MissingFile))
        /\ trace[k].pre.rulemiss
        /\ trace[k].res
        /\ ~trace[k].post.rulemiss
        /\ MissingFile \notin DOMAIN files

\* the pattern list of a file argument is empty: missing, unreadable or empty
NoPatterns(arg) ==
    /\ arg \in {FileF, MissingFile, NoSuchFile}
    /\ (arg \notin DOMAIN files \/ files[arg] = <<>>)

\* C8: an empty or missing pattern file makes a rule that evaluates its
\* matcher never match, also under negation: `reject from file:F`,
\* `accept from /no/such/file` and `reject not to file:F` match no address.
C8_EmptyFileNeverMatches ==
    \A k \in 1..Len(trace) :
        /\ (\E n \in 1..Len(trace[k].log) :
               trace[k].log[n].t = "match" /\ NoPatterns(trace[k].log[n].arg)) =>
              /\ trace[k].res = FALSE
              /\ trace[k].post.withprops = trace[k].pre.withprops
        /\ (/\ Len(RuleOf(k).clauses) = 1
            /\ \E a \in {FileF, MissingFile, NoSuchFile} :
                  /\ NoPatterns(a)
                  /\ RuleOf(k).clauses[1].expr \in
                        {newFromNode(a), newToNode(a), NotN(newToNode(a))}) =>
              trace[k].res = FALSE

\* `not to file:F` alone, with an empty file:F: the negation is true
C8_Witness ==
    \E k \in 1..Len(trace) :
        /\ Len(RuleOf(k).clauses) = 1
        /\ RuleOf(k).clauses[1].expr = NotN(newToNode(FileF))
        /\ FileF \in DOMAIN files
        /\ files[FileF] = <<>>
        /\ ClauseEv(k, 1).r
        /\ trace[k].res = FALSE

-----------------------------------------------------------------------------
(* Properties of the ruleset scan, stated on the state a scan leaves.      *)

\* rule i passes the phase gate of the last scan
Gate(i) ==
    /\ ruleset[i].requires <= phase
    /\ (ruleset[i].deferto = pAny \/ ruleset[i].deferto = phase)

\* what Rule.check gives for every rule on the Context of the connection
Outcomes == [i \in 1..Len(ruleset) |-> check(ruleset[i], c, files)]

\* rule i matches the Context of the connection
Matches(i) == check(ruleset[i], c, files).res

\* C3: the action of a scan is that of the first eligible, matching rule that
\* is not set-with; a matching set-with rule does not stop the scan and its
\* with-properties persist, a later matching rule overwriting them per key;
\* with no such rule the result is accept with the accumulated properties.
C3_FirstNonSetWithDecides ==
    phase # pAny =>
        LET out == Outcomes
            \* the eligible matching rules that give a verdict
            deciders == {i \in 1..Len(ruleset) :
                            Gate(i) /\ out[i].res /\ ruleset[i].result # aNoresult}
            first == CHOOSE i \in deciders : \A j \in deciders : i <= j
            last == IF deciders # {} THEN first ELSE Len(ruleset)
            \* the rules whose with-options the scan merges
            setters == {i \in 1..last : Gate(i) /\ out[i].res}
            \* the with-options of the clause of rule i that matches
            withs == [i \in setters |-> ruleset[i].clauses[out[i].ncl].withs]
        IN  /\ decision.action =
                  IF deciders # {} THEN ruleset[first].result ELSE aAccept
            /\ DOMAIN decision.withprops = UNION {DOMAIN withs[i] : i \in setters}
            /\ \A x \in DOMAIN decision.withprops :
                  \E i \in setters :
                      /\ x \in DOMAIN withs[i]
                      /\ decision.withprops[x] = withs[i][x]
                      /\ \A j \in setters : j > i => x \notin DOMAIN withs[j]
            /\ decision.withprops = c.withprops

\* a set-with rule matched, then a reject rule overwrote one of its options
C3_Witness ==
    /\ ruleset = <<RuleSetBye, RuleData>>
    /\ phase = pData
    /\ Len(trace) = 2
    /\ trace[1].res /\ trace[2].res
    /\ decision.action = aReject
    /\ decision.withprops = [message |-> "No TLS", savedir |-> "d"]

\* the Context fields a terminal node reads
ReadsOfNode(e) ==
    CASE e.t = "all" -> {}
      [] e.t = "tls" -> {"tlson"}
      [] e.t = "match" /\ e.what = "host" -> {"verified"}
      [] e.t = "match" /\ e.what = "helo" -> {"heloname"}
      [] e.t = "match" /\ e.what = "from" -> {"from"}
      [] e.t = "match" /\ e.what = "to" -> {"rcptto"}

RECURSIVE ReadsOf(_)
ReadsOf(e) ==
    CASE e.t = "not" -> ReadsOf(e.node)
      [] e.t = "or" -> ReadsOf(e.left) \cup ReadsOf(e.right)
      [] e.t = "and" -> UNION {ReadsOf(e.nodes[i]) : i \in 1..Len(e.nodes)}
      [] OTHER -> ReadsOfNode(e)

ReadsOfRule(r) == UNION {ReadsOf(r.clauses[i].expr) : i \in 1..Len(r.clauses)}

\* the scan ended at its last recorded rule
Stopped ==
    /\ Len(trace) > 0
    /\ trace[Len(trace)].res
    /\ RuleOf(Len(trace)).result # aNoresult

\* the rules the scan got to
Reached == 1..(IF Stopped THEN trace[Len(trace)].idx ELSE Len(ruleset))

\* among the rules a scan gets to, exactly those with requires <= P and
\* deferto unset or equal to P are checked, in file order
GateInv ==
    phase # pAny =>
        /\ \A i \in Reached :
              (\E k \in 1..Len(trace) : trace[k].idx = i) <=>
                  /\ ruleset[i].requires <= phase
                  /\ (ruleset[i].deferto = pAny \/ ruleset[i].deferto = phase)
        /\ \A k \in 1..Len(trace) : trace[k].idx \in Reached
        /\ \A k \in 1..(Len(trace) - 1) : trace[k].idx < trace[k + 1].idx
        /\ \A k \in 1..Len(trace) :
              RuleOf(k).deferto # pAny => RuleOf(k).deferto = phase

\* a rule without an explicit phase that matched is checked and matches again
\* in the scan of a later phase, when the data it reads is as it was and the
\* scan gets to it
MatchesAgain ==
    \A k \in 1..Len(trace) :
        (/\ RuleOf(k).deferto = pAny
         /\ trace[k].res
         /\ phase' >= phase
         /\ \A f \in ReadsOfRule(RuleOf(k)) : c'[f] = trace[k].pre[f]
         /\ ~\E n \in 1..Len(trace') :
               /\ trace'[n].idx < trace[k].idx
               /\ trace'[n].res
               /\ ruleset[trace'[n].idx].result # aNoresult) =>
            \E n \in 1..Len(trace') :
                trace'[n].idx = trace[k].idx /\ trace'[n].res

\* C4: a rule is checked at phase P iff requires <= P and deferto is unset
\* or equal to P; so a rule with no explicit phase that matched is checked
\* and matches again at every later phase while the data it reads is
\* unchanged, and a rule with an explicit phase is checked in no other phase.
C4_PhaseGating == [](GateInv) /\ [][MatchesAgain]_vars

\* `accept host .friend.com`, first rule, still accepts when the message is in
\* and an @helo rule after it was checked at HELO time only
C4_Witness ==
    /\ ruleset = <<RuleFriend, RuleLiar>>
    /\ phase = pMessage
    /\ Len(trace) = 1
    /\ trace[1].res
    /\ decision.action = aAccept

\* C5: `reject from info@fbi.gov to joe@example.com` rejects a RCPT TO of
\* joe@example.com exactly when the MAIL FROM was info@fbi.gov (addresses
\* compare in lower case), and gives no verdict before RCPT TO.
C5_FbiRule ==
    /\ \A k \in 1..Len(trace) :
          RuleOf(k) = RuleFbi =>
              /\ phase >= pRto
              /\ (phase = pRto /\ c.rcptto = "joe@example.com") =>
                    (trace[k].res <=> ToLower(c.from) = "info@fbi.gov")
    /\ ruleset = <<RuleFbi>> =>
          /\ phase \in {pConnect, pHelo, pMfrom} =>
                trace = <<>> /\ decision.action = aAccept
          /\ (phase = pRto /\ c.rcptto = "joe@example.com") =>
                (decision.action = aReject <=> ToLower(c.from) = "info@fbi.gov")
          /\ (phase = pRto /\ c.rcptto # "joe@example.com") =>
                decision.action = aAccept

\* RCPT TO joe@example.com after MAIL FROM info@fbi.gov was rejected
C5_Witness ==
    /\ ruleset = <<RuleFbi>>
    /\ phase = pRto
    /\ c.from = "info@fbi.gov"
    /\ c.rcptto = "joe@example.com"
    /\ decision.action = aReject

\* the MAIL FROM address has a local part and the domain a.b
FromDomainAB == Len(c.from) > 4 /\ HasSuffix(ToLower(c.from), "@a.b")

\* C6: the compact rule `set-with from @a.b with message "Hi"; all with
\* message "Bye"` leaves message = "Hi" when the MAIL FROM domain is a.b and
\* "Bye" otherwise; the two separate set-with rules always leave "Bye".
C6_CompactVersusSeparate ==
    /\ (ruleset = <<RuleCompact>> /\ phase >= pMfrom) =>
          decision.withprops = [message |-> IF FromDomainAB THEN "Hi" ELSE "Bye"]
    /\ (ruleset = <<RuleSetHi, RuleSetBye>> /\ phase # pAny) =>
          decision.withprops = [message |-> "Bye"]

\* the compact rule left "Hi" for a sender at a.b
C6_Witness ==
    /\ ruleset = <<RuleCompact>>
    /\ phase = pMfrom
    /\ c.from = "x@a.b"
    /\ decision.withprops = [message |-> "Hi"]

\* the outcome of entry k is that of a check on a Context with the signal clear
CleanOutcome(k) ==
    LET k0 == check(RuleOf(k), [trace[k].pre EXCEPT !.rulemiss = FALSE], files)
        k1 == check(RuleOf(k), [trace[k].pre EXCEPT !.rulemiss = TRUE], files)
    IN  /\ trace[k].res = k0.res /\ trace[k].post = k0.c /\ trace[k].log = k0.log
        /\ trace[k].res = k1.res /\ trace[k].post = k1.c /\ trace[k].log = k1.log

\* C9: the data-unavailable signal only skips the rule that raised it: the
\* outcome of a check does not depend on the signal a previous rule left, and
\* a skipped rule does not keep a later rule of the scan from matching.
C9_SignalSkipsOneRule ==
    \A k \in 1..Len(trace) :
        /\ CleanOutcome(k)
        /\ trace[k].post.rulemiss =>
              /\ trace[k].res = FALSE
              /\ \A i \in (trace[k].idx + 1)..Len(ruleset) :
                    (Gate(i) /\ \A j \in (trace[k].idx + 1)..(i - 1) :
                                   ~(Gate(j) /\ Matches(j)
                                      /\ ruleset[j].result # aNoresult)) =>
                        \E n \in 1..Len(trace) :
                            trace[n].idx = i /\ trace[n].res = Matches(i)

\* a rule was skipped for a missing file and the next rule matched
C9_Witness ==
    /\ Len(trace) = 2
    /\ trace[1].post.rulemiss
    /\ trace[2].pre.rulemiss
    /\ trace[2].res
    /\ ~trace[2].post.rulemiss

-----------------------------------------------------------------------------
(* Properties of the canonical text.                                       *)

\* the rule a and the rule b have the same action and deferto phase and,
\* clause by clause, equal expression trees and equal with-maps
SameRule(a, b) ==
    /\ a.result = b.result
    /\ a.deferto = b.deferto
    /\ Len(a.clauses) = Len(b.clauses)
    /\ \A j \in 1..Len(a.clauses) :
        /\ a.clauses[j].expr = b.clauses[j].expr
        /\ DOMAIN a.clauses[j].withs = DOMAIN b.clauses[j].withs
        /\ \A k \in DOMAIN a.clauses[j].withs :
               a.clauses[j].withs[k] = b.clauses[j].withs[k]

\* no pattern and no with-value of the rule holds a space or a quote
RECURSIVE PlainExpr(_)
PlainText(v) == IndexByte(v, " ") < 0 /\ IndexByte(v, "\"") < 0
PlainExpr(e) ==
    CASE e.t \in {"match", "source"} -> PlainText(e.arg)
      [] e.t \in {"dnsbl", "dbl"} -> PlainText(e.domain)
      [] e.t = "not" -> PlainExpr(e.node)
      [] e.t = "or" -> PlainExpr(e.left) /\ PlainExpr(e.right)
      [] e.t = "and" -> \A j \in 1..Len(e.nodes) : PlainExpr(e.nodes[j])
      [] OTHER -> TRUE

PlainRule(r) ==
    \A j \in 1..Len(r.clauses) :
        /\ PlainExpr(r.clauses[j].expr)
        /\ \A k \in DOMAIN r.clauses[j].withs :
               IndexByte(r.clauses[j].withs[k], "\"") < 0

\* The round trip of the rules whose patterns hold no space and no quote and
\* whose with-values hold no quote: their canonical text parses back to them.
PlainRulesRoundTrip ==
    (rt.stage = "done" /\ PlainRule(rt.rule))
        => rt.again.ok /\ SameRule(rt.rule, rt.again.rule)

\* C10: for every rule the parser accepts, the text Rule.String returns is
\* the same for every traversal order of the with-map and of the option-name
\* table, and parsing it gives a rule with the same action, the same deferto
\* phase and, clause by clause, an equal expression tree and an equal
\* with-map.
C10_RoundTrip ==
    /\ rt.stage = "parsed" => Cardinality(RuleString(rt.rule)) = 1
    /\ rt.stage = "done" => rt.again.ok /\ SameRule(rt.rule, rt.again.rule)


-----------------------------------------------------------------------------
(* Claims about the evaluation of single nodes.                            *)

\* the file environment with, beside each file f, a file named f followed by
\* "@" that lists each pattern P of f as @P
AtName(f) == f \o "@"

AtPatterns(ps) == [i \in 1..Len(ps) |-> "@" \o ps[i]]

AtFiles(fl) ==
    [f \in DOMAIN fl \cup {AtName(g) : g \in DOMAIN fl} |->
        IF f \in DOMAIN fl THEN fl[f]
        ELSE AtPatterns(fl[CHOOSE g \in DOMAIN fl : AtName(g) = f])]

\* the address pattern argument that stands for @HPAT
AtArg(h) == IF IsFileArg(h) THEN AtName(h) ELSE "@" \o h

\* (host HPAT or helo HPAT or from @HPAT)
SourceAsOr(h) == OrN(newHostNode(h), OrN(newHeloNode(h), newFromNode(AtArg(h))))

\* which legs an evaluation tried, in order
Legs(log) ==
    [i \in 1..Len(log) |-> IF log[i].what = "source_from" THEN "from" ELSE log[i].what]

SameAsOr(x, o) ==
    /\ x.r = o.r
    /\ c.rulemiss = o.c.rulemiss
    /\ Legs(x.log) = Legs(o.log)
    /\ Legs(x.log) = SubSeq(<<"host", "helo", "from">>, 1, Len(x.log))
    /\ (Len(x.log) < 3 => x.r)

\* C11: evaluating source HPAT gives the boolean and the data-unavailable
\* signal of (host HPAT or helo HPAT or from @HPAT), for a literal and for a
\* file reference, with the legs tried in the order host, helo, from and
\* the later legs skipped once one is true
C11_SourceIsOr ==
    (ev.stage = "done" /\ ev.expr.t = "source") =>
        SameAsOr(ev, Eval(SourceAsOr(ev.expr.arg), ev.pre, AtFiles(files), <<>>))

\* a source with a file of patterns that only its from leg matched
C11_Witness ==
    /\ ev.stage = "done"
    /\ ev.expr.t = "source"
    /\ IsFileArg(ev.expr.arg)
    /\ ev.r
    /\ Len(ev.log) = 3

\* a source with a literal pattern decided by its helo leg
C11_WitnessLiteral ==
    /\ ev.stage = "done"
    /\ ev.expr.t = "source"
    /\ ~IsFileArg(ev.expr.arg)
    /\ ev.r
    /\ Len(ev.log) = 2

\* the names a dbl node asks the blocklist about
dblProbes(d, cx) == {n \o "." \o d.domain : n \in dblCheck(d, cx)}

\* the elements of a sequence
Range(q) == {q[i] : i \in 1..Len(q)}

\* what C12 says of a dbl node that was to probe the names P, visited the
\* names in the order of the Context it ran on, and gave x
DblAsSet(x, P, order) ==
    /\ x.r = (P \cap x.pre.listed /= {})
    /\ Range(c.probed) = P
    /\ Len(c.probed) = Cardinality(P)
    /\ (order /= <<>> => c.probed = [i \in 1..Len(order) |-> order[i] \o "." \o x.expr.domain])
    /\ (P = {} => ~x.r /\ c.probed = <<>>)

\* C12: dbl SRC DOMAIN is true iff the blocklist lists at least one name of
\* the set gathered from the selected sources; each distinct name is probed
\* exactly once, also after a hit; the result is the same for every order
\* of visiting the set (the initial states give a dbl node every order of
\* its set); an empty set gives false without a probe
C12_DblProbesAll ==
    (ev.stage = "done" /\ ev.expr.t = "dbl") =>
        DblAsSet(ev, dblProbes(ev.expr, ev.pre), ev.pre.order)

\* three names visited, the first of them listed, the others probed after it
C12_Witness ==
    /\ ev.stage = "done"
    /\ ev.expr.t = "dbl"
    /\ Len(c.probed) >= 3
    /\ c.probed[1] \in c.listed
    /\ c.probed[2] \notin c.listed
    /\ ev.r

\* a dbl node with nothing to check
C12_WitnessEmpty ==
    /\ ev.stage = "done"
    /\ ev.expr.t = "dbl"
    /\ dblCheck(ev.expr, ev.pre) = {}
    /\ ~ev.r
    /\ c.probed = <<>>

\* a name with its trailing root dot removed, if it has one
StripRootDot(n) == IF HasSuffix(n, ".") THEN DropLast(n) ELSE n

\* every reverse-DNS name of the connection
RdnsNames(cx) == Range(cx.verified) \cup Range(cx.nofwd) \cup Range(cx.inconsist)

\* C13: dbl host asks, for every reverse-DNS name of the connection, about
\* the name without its trailing root dot when it ends in '.', and about
\* the name as it is when it does not, followed by '.' and the DBL domain
C13_StripsRootDot ==
    (ev.stage = "done" /\ ev.expr.t = "dbl" /\ ev.expr.src = oHost) =>
        Range(c.probed) =
            {StripRootDot(n) \o "." \o ev.expr.domain : n \in RdnsNames(ev.pre)}

\* what holds of the code: the last character goes, whatever it is
C13_DropsLastCharacter ==
    (ev.stage = "done" /\ ev.expr.t = "dbl" /\ ev.expr.src = oHost) =>
        Range(c.probed) =
            {DropLast(n) \o "." \o ev.expr.domain : n \in RdnsNames(ev.pre)}

\* d.c.b.a.DOMAIN for the parts <<a, b, c, d>>
ReversedName(q, domain) ==
    q[4] \o "." \o q[3] \o "." \o q[2] \o "." \o q[1] \o "." \o domain

\* one probe of name, with its answer returned and a hit logged
OneProbe(x, name) ==
    /\ c.probed = <<name>>
    /\ x.r = (name \in x.pre.listed)
    /\ c.dnsblhit = IF name \in x.pre.listed THEN <<x.expr.domain>> ELSE <<>>

NoProbe(x) == ~x.r /\ c.probed = <<>> /\ c.dnsblhit = <<>>

\* C14: dnsbl DOMAIN with the remote IP a.b.c.d probes exactly
\* d.c.b.a.DOMAIN, returns the answer of the probe and logs DOMAIN as a
\* DNSBL hit iff the probe hit; with an empty remote IP, or one that is not
\* four parts separated by dots, it is false, probes nothing, logs nothing
C14_DnsblReversedQuad ==
    (ev.stage = "done" /\ ev.expr.t = "dnsbl") =>
        IF ev.pre.rip /= "" /\ Len(SplitDot(ev.pre.rip)) = 4
        THEN OneProbe(ev, ReversedName(SplitDot(ev.pre.rip), ev.expr.domain))
        ELSE NoProbe(ev)

\* the remote IP 192.0.2.7 is listed as 7.2.0.192.DOMAIN: a hit, logged
C14_Witness ==
    /\ ev.stage = "done"
    /\ ev.expr.t = "dnsbl"
    /\ ev.pre.rip = "192.0.2.7"
    /\ c.probed = <<"7.2.0.192." \o ev.expr.domain>>
    /\ ev.r
    /\ c.dnsblhit = <<ev.expr.domain>>

\* an IPv6 remote address: no probe
C14_WitnessIPv6 ==
    /\ ev.stage = "done"
    /\ ev.expr.t = "dnsbl"
    /\ ev.pre.rip = "2001:db8::1"
    /\ NoProbe(ev)

\* the values a matcher node is given to match
ValuesOf(m, cx) == Range(getter(m.what, cx))

\* some value matches some pattern
AnyMatches(m, vals, pats) ==
    \E v \in vals : \E p \in pats : matcher(m.what, v, p)

\* C15: a pattern matcher (helo, host, from, to, ip) whose argument gives a
\* non-empty pattern list is true iff at least one value of its getter
\* matches at least one pattern, and does not raise the data-unavailable
\* signal; host is false, without the signal, when no hostname is verified
C15_MatchAnyOfAny ==
    (/\ ev.stage = "done"
     /\ ev.expr.t = "match"
     /\ getMatchList(files, ev.expr.arg) /= <<>>) =>
        /\ ev.r = AnyMatches(ev.expr, ValuesOf(ev.expr, ev.pre),
                             Range(getMatchList(files, ev.expr.arg)))
        /\ ~c.rulemiss
        /\ (ev.expr.what = "host" /\ ev.pre.verified = <<>> => ~ev.r)

\* host with a file of patterns and no verified hostname: false, no signal
C15_Witness ==
    /\ ev.stage = "done"
    /\ ev.expr.t = "match"
    /\ ev.expr.what = "host"
    /\ Len(getMatchList(files, ev.expr.arg)) = 2
    /\ ev.pre.verified = <<>>
    /\ ~ev.r
    /\ ~c.rulemiss

\* host matched by one of two verified hostnames
C15_WitnessOneOfTwo ==
    /\ ev.stage = "done"
    /\ ev.expr.t = "match"
    /\ ev.expr.what = "host"
    /\ Len(ev.pre.verified) = 2
    /\ ev.r

\* noat,quoted,unqualified,garbage
BadAsDocumented == oNoat \cup oQuoted \cup oUnqualified \cup oGarbage

\* the attributes of the address that an address attribute test looks at
AddrAttrs(t, cx) == optGetter(t.what, cx)

\* C16: from-has bad and to-has bad are true for exactly the addresses with
\* at least one of the attributes noat, quoted, unqualified, garbage: true
\* for an address that is only quoted, false for one that is only a route
C16_BadIsNoatQuotedUnqualifiedGarbage ==
    (/\ ev.stage = "done"
     /\ ev.expr.t = "opt"
     /\ ev.expr.what \in {"from-has", "to-has"}
     /\ ev.expr.opts = oBad) =>
        ev.r = (AddrAttrs(ev.expr, ev.pre) \cap BadAsDocumented /= {})

\* what holds of the code: bad is unqualified, route, noat or garbage
C16_BadInCode ==
    (/\ ev.stage = "done"
     /\ ev.expr.t = "opt"
     /\ ev.expr.what \in {"from-has", "to-has"}
     /\ ev.expr.opts = oBad) =>
        ev.r = (AddrAttrs(ev.expr, ev.pre)
                  \cap (oUnqualified \cup oRoute \cup oNoat \cup oGarbage) /= {})

\* the reverse-DNS attributes as the three name lists give them
RdnsAttrsRight(A, cx) ==
    /\ (oExists \subseteq A) = (cx.verified /= <<>>)
    /\ (oNodns \subseteq A) = (cx.verified = <<>>)
    /\ (oNofwd \subseteq A) = (cx.nofwd /= <<>>)
    /\ (oInconsist \subseteq A) = (cx.inconsist /= <<>>)
    /\ (oGood \subseteq A) = (cx.verified /= <<>> /\ cx.nofwd = <<>> /\ cx.inconsist = <<>>)

\* the boolean of an expression on a Context
Holds(e, cx) == Eval(e, cx, files, <<>>).r

\* C17: exists iff the verified list is non-empty and nodns iff it is
\* empty, noforward iff the no-forward list is non-empty, inconsistent iff
\* the inconsistent list is non-empty, good iff verified is non-empty and
\* the two other lists are empty; so dns good is the same as
\* not dns nodns,noforward,inconsistent and dns exists as not dns nodns
C17_RdnsAttributes ==
    (ev.stage = "done" /\ ev.expr.t = "opt" /\ ev.expr.what = "dns") =>
        /\ RdnsAttrsRight(dnsGetter(ev.pre), ev.pre)
        /\ ev.r = (ev.expr.opts \cap dnsGetter(ev.pre) /= {})
        /\ Holds(newDnsOpt(oGood), ev.pre)
             = Holds(NotN(newDnsOpt(oNodns \cup oNofwd \cup oInconsist)), ev.pre)
        /\ Holds(newDnsOpt(oExists), ev.pre) = Holds(NotN(newDnsOpt(oNodns)), ev.pre)

\* verified names and a no-forward name: dns exists is true, dns good is not
C17_Witness ==
    /\ ev.stage = "done"
    /\ ev.expr = newDnsOpt(oExists)
    /\ ev.pre.verified /= <<>>
    /\ ev.pre.nofwd /= <<>>
    /\ ev.r
    /\ ~Holds(newDnsOpt(oGood), ev.pre)

-----------------------------------------------------------------------------
(* Claims about ValidDomain.                                               *)

\* the MX records that the lookup of the domain answered
MXOf(d) == d.res.mx[d.domain \o "."]

\* the record says that the domain takes no mail
NullOrBogus(m) == ToLower(m.host) \in {".", "localhost."}

\* C18: if any MX record of the domain has the target '.' or 'localhost.',
\* in any case of letters and at any preference, ValidDomain returns bad,
\* wherever the record stands and however the other targets resolve
C18_NullMXIsBad ==
    (/\ dns.stage = "done"
     /\ MXOf(dns).err = "nil"
     /\ \E i \in 1..Len(MXOf(dns).recs) : NullOrBogus(MXOf(dns).recs[i])) =>
        dns.v = dnsBad

\* a '.' of preference 10 after a good target and a target that timed out
C18_Witness ==
    /\ dns.stage = "done"
    /\ MXOf(dns).err = "nil"
    /\ Len(MXOf(dns).recs) = 3
    /\ MXOf(dns).recs[1].host = "good.example."
    /\ MXOf(dns).recs[2].host = "slow.example."
    /\ MXOf(dns).recs[3] = [host |-> ".", pref |-> 10]
    /\ dns.v = dnsBad

\* C19: ValidDomain returns good, bad or tempfail for every answer of the
\* resolver, an MX answer without records included; never undefined
C19_NeverUndefined ==
    dns.stage = "done" => dns.v \in {dnsGood, dnsBad, dnsTempfail}

\* what holds of the code: undefined is returned for an MX answer without
\* records and for no other
C19_UndefinedOnlyOnEmptyMX ==
    dns.stage = "done" =>
        (dns.v = dnsUndef) = (MXOf(dns).err = "nil" /\ MXOf(dns).recs = <<>>)

\* the results of checkIP on the targets of the records, in their order
TargetResults(d) ==
    [i \in 1..Len(MXOf(d).recs) |-> checkIP(d.res, MXOf(d).recs[i].host)]

\* the best of the results rs
BestOf(rs) ==
    CHOOSE v \in {rs[i].v : i \in 1..Len(rs)} : \A i \in 1..Len(rs) : rs[i].v <= v

\* the first of the results rs that is as good as best
FirstBest(rs, best) ==
    CHOOSE i \in 1..Len(rs) : rs[i].v = best /\ \A j \in 1..(i - 1) : rs[j].v /= best

\* what C20 says of an answer d whose targets have the results rs
BestOfAll(d, rs, best) ==
    /\ d.looked = [i \in 1..Len(rs) |-> MXOf(d).recs[i].host]
    /\ d.v = best
    /\ d.err = rs[FirstBest(rs, best)].err
    /\ (d.v = dnsGood) = (\E i \in 1..Len(rs) : rs[i].v = dnsGood)
    /\ (d.v = dnsBad) = (\A i \in 1..Len(rs) : rs[i].v = dnsBad)

\* C20: with MX records of which none is '.' or 'localhost.', ValidDomain
\* runs checkIP on every target, and returns the maximum of the results in
\* the order bad < tempfail < good with the error of the first target, in
\* the order of the records, that has that maximum
C20_BestOfAllTargets ==
    (/\ dns.stage = "done"
     /\ MXOf(dns).err = "nil"
     /\ MXOf(dns).recs /= <<>>
     /\ \A i \in 1..Len(MXOf(dns).recs) : ~NullOrBogus(MXOf(dns).recs[i])) =>
        BestOfAll(dns, TargetResults(dns), BestOf(TargetResults(dns)))

\* a bad target, then two targets that fail for a while in different ways:
\* tempfail, with the error of the first of the two
C20_Witness ==
    /\ dns.stage = "done"
    /\ MXOf(dns).err = "nil"
    /\ Len(MXOf(dns).recs) = 3
    /\ MXOf(dns).recs[1].host = "gone.example."
    /\ MXOf(dns).recs[2].host = "slow.example."
    /\ MXOf(dns).recs[3].host = "fail.example."
    /\ dns.v = dnsTempfail
    /\ dns.err = DNSError("timeout", "slow.example.")
    /\ Len(dns.looked) = 3

\* a good target first and a bad one after it, still looked up
C20_WitnessGoodFirst ==
    /\ dns.stage = "done"
    /\ MXOf(dns).err = "nil"
    /\ Len(MXOf(dns).recs) = 2
    /\ MXOf(dns).recs[1].host = "good.example."
    /\ MXOf(dns).recs[2].host = "priv.example."
    /\ dns.v = dnsGood
    /\ dns.looked = <<"good.example.", "priv.example.">>

-----------------------------------------------------------------------------
(* Claims about checkIP.                                                   *)

\* the addresses of the pool that are not global unicast
NotGlobalUnicast ==
    {"127.0.0.1", "224.0.0.1", "169.254.1.1", "0.0.0.0", "255.255.255.255",
     "::1", "ff02::1", "fe80::1", "fe90::1"}

\* the addresses of the pool that lie in 10/8, 172.16/12, 192.168/16,
\* FC00::/7 or FEC0::/10
InPrivateSpace ==
    {"10.0.0.1", "172.16.0.1", "172.31.255.254", "192.168.1.1",
     "fc00::1", "fd12:3456::1", "fec0::1", "feff::1"}

\* the answer the host's address lookup gave
IPAnswer == dns.res.ip[dns.host]

\* the class of an answer as the documentation of checkIP gives it
ClassOf(a) ==
    IF a.err \in {"timeout", "servfail"} THEN dnsTempfail
    ELSE IF a.err # "nil" \/ Len(a.recs) = 0 THEN dnsBad
    ELSE IF \E i \in 1..Len(a.recs) : a.recs[i] \in NotGlobalUnicast \cup InPrivateSpace
         THEN dnsBad
    ELSE dnsGood

\* C21: checkIP gives tempfail on a transient lookup error, bad on any other
\* error, on an answer without addresses and on an answer with at least one
\* address that is not global unicast or lies in private space, wherever it
\* stands in the answer, and good otherwise.
C21_CheckIPClassifies ==
    dns.stage = "checked" =>
        /\ dns.v = ClassOf(IPAnswer)
        /\ (dns.v = dnsGood <=> dns.err = NilErr)

\* an acceptable address first, a private one after it: bad
C21_Witness ==
    /\ dns.stage = "checked"
    /\ Len(IPAnswer.recs) = 2
    /\ IPAnswer.recs[1] \notin NotGlobalUnicast \cup InPrivateSpace
    /\ IPAnswer.recs[2] \in InPrivateSpace
    /\ dns.v = dnsBad

\* two acceptable addresses: good
C21_WitnessGood ==
    /\ dns.stage = "checked"
    /\ Len(IPAnswer.recs) = 2
    /\ IPAnswer.recs[1] = "172.32.0.1"
    /\ IPAnswer.recs[2] = "2001:db8::25"
    /\ dns.v = dnsGood

\* addresses whose first group is short, 00fd and 0fec, lie outside FC00::/7
\* and FEC0::/10: good
C21_WitnessShortGroup ==
    /\ dns.stage = "checked"
    /\ IPAnswer.recs = <<"fd::1", "fec::1">>
    /\ dns.v = dnsGood

\* a link-local address beyond fe8f: bad, as not global unicast
C21_WitnessLinkLocal ==
    /\ dns.stage = "checked"
    /\ IPAnswer.recs = <<"ff::1", "fe90::1">>
    /\ dns.v = dnsBad
    /\ dns.err.kind = "not global unicast"

-----------------------------------------------------------------------------
(* Claims about the failure of the MX lookup.                              *)

\* the domain's own name, as it is looked up
OwnName == dns.domain \o "."

\* the MX lookup of the domain failed
MXFailed == dns.stage = "done" /\ MXOf(dns).err # "nil"

\* the failure was a timeout or the 'server misbehaving' answer
MXTransient == MXOf(dns).err \in {"timeout", "servfail"}

\* C22: when the MX lookup fails transiently ValidDomain gives tempfail and
\* looks up no address; on every other failure it gives the result and the
\* error of checkIP on the domain's own name, and that name is the only one
\* looked up; a failure is always reported as bad, tempfail or good.
C22_MXFailure ==
    MXFailed =>
        /\ MXTransient => dns.v = dnsTempfail /\ dns.looked = <<>>
        /\ ~MXTransient =>
              /\ dns.v = ClassOf(dns.res.ip[OwnName])
              /\ dns.v = checkIP(dns.res, OwnName).v
              /\ dns.err = checkIP(dns.res, OwnName).err
              /\ dns.looked = <<OwnName>>
        /\ dns.v \in {dnsBad, dnsTempfail, dnsGood}

\* the MX lookup finds no such name and the domain has a public address
C22_Witness ==
    /\ MXFailed
    /\ MXOf(dns).err = "nxdomain"
    /\ dns.res.ip[OwnName] = [err |-> "nil", recs |-> <<"192.0.2.80">>]
    /\ dns.v = dnsGood
    /\ dns.looked = <<OwnName>>

\* the name server fails on the MX lookup of a domain with a public address
C22_WitnessServfail ==
    /\ MXFailed
    /\ MXOf(dns).err = "servfail"
    /\ dns.res.ip[OwnName] = [err |-> "nil", recs |-> <<"192.0.2.80">>]
    /\ dns.v = dnsTempfail
    /\ dns.looked = <<>>

-----------------------------------------------------------------------------
(* Claims about matchAddress and matchHost.                                *)

\* the labels s are the last labels of t
LabelSuffix(s, t) ==
    Len(s) <= Len(t) /\ SubSeq(t, Len(t) - Len(s) + 1, Len(t)) = s

\* a local part, an '@' and a domain
HasBoth(a) == a.at /\ a.local # "" /\ a.dom # <<>>

\* what the documentation says of the address a and the pattern p
AddrShouldMatch(a, p) ==
    CASE p.kind = "null" -> a.text = ""
      [] p.kind = "literal" -> HasBoth(a) /\ a.local = p.local /\ a.dom = p.dom
      [] p.kind = "local" -> a.local = p.local /\ (a.at => a.dom # <<>>)
      [] p.kind = "domain" -> HasBoth(a) /\ a.dom = p.dom
      [] p.kind = "subdomain" -> HasBoth(a) /\ LabelSuffix(p.dom, a.dom)
      [] p.kind = "any" -> HasBoth(a)
      [] OTHER -> FALSE

\* the documentation speaks of a pattern without '@' only for addresses
\* that have one
AddrClaimed(a, p) == p.kind = "word" => a.at

\* C23: matchAddress compares in lower case; '<>' matches only the empty
\* address, 'a@b' only the same address, 'a@' the local part a at any domain
\* and the bare a, '@b' any local part at exactly b, '@.b' at b and at every
\* domain ending in '.b', '@' every address with a local part and a domain;
\* an address that starts or ends with '@' matches no pattern.
C23_AddressPatterns ==
    (ev.stage = "addr matched" /\ AddrClaimed(ev.v, ev.pat)) =>
        (ev.r <=> AddrShouldMatch(ev.v, ev.pat))

\* zamdef.ghi ends in the characters of def.ghi and is not under it
C23_Witness ==
    /\ ev.stage = "addr matched"
    /\ ev.v.text = "abc@zamdef.ghi"
    /\ ev.pat.text = "@.def.ghi"
    /\ ~ev.r

\* an upper-case address and a lower-case pattern
C23_WitnessCase ==
    /\ ev.stage = "addr matched"
    /\ ev.v.text = "ABC@DEF"
    /\ ev.pat.text = "abc@"
    /\ ev.r

\* what the documentation says of the host h and the pattern p
HostShouldMatch(h, p) ==
    CASE p.kind = "exact" -> h.labels = p.labels
      [] p.kind = "suffix" -> h.labels # <<>> /\ LabelSuffix(p.labels, h.labels)
      [] OTHER -> h.labels = <<>>

\* C24: a host pattern 'b' matches exactly the host b; '.b' matches b and
\* every host ending in '.b' and no host that has b as a text suffix only;
\* the host '.' is matched by the pattern '.' alone.
C24_HostPatterns ==
    ev.stage = "host matched" => (ev.r <=> HostShouldMatch(ev.v, ev.pat))

\* prefabc ends in abc and is not under it
C24_Witness ==
    /\ ev.stage = "host matched"
    /\ ev.v.text = "prefabc"
    /\ ev.pat.text = ".abc"
    /\ ~ev.r

\* the root matches the root pattern
C24_WitnessRoot ==
    /\ ev.stage = "host matched"
    /\ ev.v.text = "."
    /\ ev.pat.text = "."
    /\ ev.r

-----------------------------------------------------------------------------
(* Claims about the validity attributes of an address and 'dbl from'.      *)

\* the attributes that keep an address from being classified by its domain
NotPlain == oRoute \cup oUnqualified \cup oGarbage \cup oNoat

Validity == oDomainValid \cup oDomainInvalid \cup oDomainTempfail

\* the attribute that stands for good, bad and tempfail
ImageOf(v) ==
    CASE v = dnsGood -> oDomainValid
      [] v = dnsBad -> oDomainInvalid
      [] v = dnsTempfail -> oDomainTempfail
      [] OTHER -> {}

\* what ValidDomain says of the domain segment of the address
SegmentClass == ValidDomain(c.res, ev.case.segment).v

Classified == ev.stage \in {"opts", "dbl"}

\* the attributes do not depend on what the resolver knows
NoLookupMade ==
    \A k \in DomainKinds :
        getAddrOpts(c.from, [c EXCEPT !.res = KindResolver(k)]) = ev.opts

\* the rows of TestAddrOpts
AddrOptsTested ==
    [a \in {"", "noat", "\"fred\"@jones", "jim@jones", "@jones:user@jim.bob",
            "@j:user@jim", "@garbage", "garbage@", "<job@jim.bob", "joe..@jim.bob",
            "joe@@jim.bob", "joe@jim.bob\"", "joe@jim.bob>", "\"joe..bob\"@jim.bob"} |->
        CASE a = "" -> oZero
          [] a = "noat" -> oNoat
          [] a = "\"fred\"@jones" -> oQuoted \cup oUnqualified
          [] a = "jim@jones" -> oUnqualified
          [] a = "@jones:user@jim.bob" -> oRoute
          [] a = "@j:user@jim" -> oRoute \cup oUnqualified
          [] a \in {"@garbage", "garbage@"} -> oGarbage \cup oUnqualified
          [] a = "\"joe..bob\"@jim.bob" -> oQuoted \cup oGarbage
          [] OTHER -> oGarbage]

\* getAddrOpts gives what TestAddrOpts expects, whatever the resolver knows
AddrOptsAsTested ==
    (Classified /\ c.from \in DOMAIN AddrOptsTested) =>
        ev.opts = AddrOptsTested[c.from]

\* C25: an address that is a route, unqualified, garbage or without '@' has
\* none of valid, invalid and tempfail and its domain is not looked up; every
\* other non-empty address has exactly one of the three, the one that stands
\* for the result of ValidDomain on its domain segment.
C25_ValidityOnlyForPlain ==
    Classified =>
        /\ ev.opts \cap NotPlain # {} =>
              ev.opts \cap Validity = {} /\ NoLookupMade
        /\ (c.from # "" /\ ev.opts \cap NotPlain = {}) =>
              /\ Cardinality(ev.opts \cap Validity) = 1
              /\ ev.opts \cap Validity = ImageOf(SegmentClass)

\* the same, for the domains of which ValidDomain says good, bad or
\* tempfail; a domain whose MX answer has no records gets none of the three
C25_ValidityWhenClassified ==
    Classified =>
        /\ ev.opts \cap NotPlain # {} =>
              ev.opts \cap Validity = {} /\ NoLookupMade
        /\ (c.from # "" /\ ev.opts \cap NotPlain = {}) =>
              IF SegmentClass = dnsUndef
              THEN ev.kind = "empty" /\ ev.opts \cap Validity = {}
              ELSE /\ Cardinality(ev.opts \cap Validity) = 1
                   /\ ev.opts \cap Validity = ImageOf(SegmentClass)

\* a quoted address of a domain with a good MX is valid
C25_PlainQuotedIsValid ==
    /\ Classified
    /\ c.from = "\"fred\"@jim.bob"
    /\ ev.kind = "good"
    /\ ev.opts = oQuoted \cup oDomainValid

\* C26: 'dbl from' probes for the MAIL FROM domain exactly when MAIL FROM
\* is not empty and its attributes have one of valid, invalid and tempfail,
\* and the name it probes for is then the domain segment of the address,
\* also behind a quoted local part that holds an '@'.
C26_FromDomainIsSegment ==
    ev.stage = "dbl" =>
        ev.probed = IF c.from # "" /\ ev.opts \cap Validity # {}
                    THEN <<ev.case.segment \o "." \o Dbl>>
                    ELSE <<>>

\* the name probed for is the text after the first '@' of MAIL FROM
C26_FromTextAfterFirstAt ==
    ev.stage = "dbl" =>
        ev.probed = IF c.from # "" /\ ev.opts \cap Validity # {}
                    THEN <<From(c.from, IndexByte(c.from, "@") + 1) \o "." \o Dbl>>
                    ELSE <<>>

\* a quoted local part with an '@': the probe is for the text after it
C26_QuotedAtProbe ==
    /\ ev.stage = "dbl"
    /\ c.from = "\"fred@bob\"@example.org"
    /\ ev.probed = <<"bob\"@example.org." \o Dbl>>

-----------------------------------------------------------------------------
(* Claims about what a call of Rule.check leaves behind.                   *)

\* C27: a call of Rule.check that returns no match, because no clause is
\* true, because the rule has no clause or because the rule is skipped for
\* the signal, leaves the with-properties of the Context as they were; they
\* change only in a call that returns match.
C27_NoMatchKeepsWiths ==
    \A k \in 1..Len(trace) :
        /\ ~trace[k].res => trace[k].post.withprops = trace[k].pre.withprops
        /\ trace[k].post.withprops # trace[k].pre.withprops => trace[k].res

\* every clause was evaluated and was false, the with-options of the clauses
\* differ from the with-properties that were there, and these are kept
C27_Witness ==
    \E k \in 1..Len(trace) :
        /\ ~trace[k].res
        /\ ~trace[k].post.rulemiss
        /\ Len(RuleOf(k).clauses) = 2
        /\ trace[k].ncl = 2
        /\ trace[k].pre.withprops = [message |-> "Old", savedir |-> "d"]
        /\ \A i \in 1..2 :
              MergeWiths(trace[k].pre.withprops, RuleOf(k).clauses[i].withs)
                  # trace[k].pre.withprops
        /\ trace[k].post.withprops = trace[k].pre.withprops

\* a clause that is true with the signal set: skipped, nothing merged
C27_WitnessSkipped ==
    \E k \in 1..Len(trace) :
        /\ ~trace[k].res
        /\ trace[k].post.rulemiss
        /\ ClauseEv(k, trace[k].ncl).r
        /\ trace[k].pre.withprops = [message |-> "Old", savedir |-> "d"]
        /\ trace[k].post.withprops = trace[k].pre.withprops

\* a pattern matcher that found no pattern to match against
EmptyMatcher(n) == n.t = "match" /\ Len(getMatchList(files, n.arg)) = 0

\* the expression holds a pattern matcher or a source
RECURSIVE HasMatcher(_)
HasMatcher(e) ==
    CASE e.t \in {"match", "source"} -> TRUE
      [] e.t = "not" -> HasMatcher(e.node)
      [] e.t = "or" -> HasMatcher(e.left) \/ HasMatcher(e.right)
      [] e.t = "and" -> \E i \in 1..Len(e.nodes) : HasMatcher(e.nodes[i])
      [] OTHER -> FALSE

\* operand 1 of the AND e is false on the Context cx and raises no signal
FirstOperandFalse(e, cx) ==
    /\ e.t = "and"
    /\ Len(e.nodes) > 1
    /\ ~Eval(e.nodes[1], [cx EXCEPT !.rulemiss = FALSE], files, <<>>).r
    /\ ~Eval(e.nodes[1], [cx EXCEPT !.rulemiss = FALSE], files, <<>>).c.rulemiss

\* C28: Rule.check leaves the signal set exactly when one of the terminal
\* nodes it evaluated is a pattern matcher (helo, host, from, to, ip or a leg
\* of source) with an empty pattern list; so a rule without pattern matchers
\* leaves no signal, and an AND whose first operand is false raises none
\* through a later operand.
C28_SignalOnlyFromEmptyMatcher ==
    \A k \in 1..Len(trace) :
        /\ trace[k].post.rulemiss <=>
              \E i \in 1..Len(trace[k].log) : EmptyMatcher(trace[k].log[i])
        /\ (\A i \in 1..Len(RuleOf(k).clauses) :
               ~HasMatcher(RuleOf(k).clauses[i].expr)) => ~trace[k].post.rulemiss
        /\ \A i \in 1..Len(RuleOf(k).clauses) :
              FirstOperandFalse(RuleOf(k).clauses[i].expr, trace[k].pre)
                  => ~ClauseEv(k, i).c.rulemiss

\* the signal was set on entry, the rule has a dnsbl and a dbl clause and no
\* pattern matcher, both clauses were evaluated and no signal is left
C28_Witness ==
    \E k \in 1..Len(trace) :
        /\ trace[k].pre.rulemiss
        /\ Len(RuleOf(k).clauses) = 2
        /\ RuleOf(k).clauses[1].expr = DNSblN(Sbl)
        /\ RuleOf(k).clauses[2].expr = newDblNode(oEhlo, Dbl)
        /\ trace[k].ncl = 2
        /\ ~trace[k].post.rulemiss

\* tls is off, so the host matcher behind it with its empty file is not
\* evaluated and the rule is not skipped but matches by its second clause
C28_WitnessAnd ==
    \E k \in 1..Len(trace) :
        /\ Len(RuleOf(k).clauses) = 2
        /\ RuleOf(k).clauses[1].expr = AndL(<<TlsN(TRUE), newHostNode(EmptyFile)>>)
        /\ RuleOf(k).clauses[2].expr = AllN
        /\ ~trace[k].pre.tlson
        /\ trace[k].res
        /\ ~trace[k].post.rulemiss

\* the signal set by the left side of an OR stays set while the right side
\* is evaluated
C28_WitnessKept ==
    \E k \in 1..Len(trace) :
        /\ Len(RuleOf(k).clauses) = 1
        /\ RuleOf(k).clauses[1].expr = OrN(newHeloNode(EmptyFile), AllN)
        /\ Len(trace[k].log) = 2
        /\ trace[k].post.rulemiss
        /\ ~trace[k].res

====
